---- MODULE Spec2Model ----
(***************************************************************************)
(* A model of the jsoncons JSON Schema keyword validators (draft-07).      *)
(*                                                                         *)
(* Strings (instance strings, object keys, JSON Pointer tokens) are        *)
(* sequences of bytes.  A JSON value is a record tagged with its           *)
(* json_type.  A double is held as a count of halves, so that 1.5 is       *)
(* halves = 3 and non-integral doubles exist in the model.                 *)
(* A validator node is a record tagged with the class that implements it;  *)
(* a null schema_pointer is the node NullPtr.                              *)
(***************************************************************************)
EXTENDS Integers, Sequences, FiniteSets, TLC

VARIABLES schema, root, instance, errors, patch, visited, pc,
          source, result, history

vars == <<schema, root, instance, errors, patch, visited, pc, source, result, history>>

\* The variables of the input sources, which the validator specifications
\* leave alone: source is a source object, result what its last operation
\* returned, history what has truly happened to its input so far.
sourceVars == <<source, result, history>>

\* The variables of the validator.
validatorVars == <<schema, root, instance, errors, patch, visited, pc>>

NoSource ==
    /\ source = [kind |-> "none"]
    /\ result = [op |-> "none"]
    /\ history = [consumed |-> 0]

(***************************************************************************)
(* Bounds of the model.                                                    *)
(***************************************************************************)
MaxChildren == 3
MaxCodepoints == 3
MaxItems == 3
MaxBound == 2
MaxTypeNames == 2

(***************************************************************************)
(* JSON values.                                                            *)
(***************************************************************************)
JNull == [type |-> "null"]
JBool(b) == [type |-> "bool", b |-> b]
JInt(n) == [type |-> "int64", v |-> n]
JUInt(n) == [type |-> "uint64", v |-> n]
JDouble(h) == [type |-> "double", halves |-> h]
JStr(s) == [type |-> "string", s |-> s]
JBytes(s) == [type |-> "byte_string", s |-> s]
JArr(a) == [type |-> "array", items |-> a]
JObj(m) == [type |-> "object", members |-> m]

IsNumber(j) == j.type \in {"int64", "uint64", "double"}

\* The numeric value of a JSON number, in halves.
NumH(j) == IF j.type = "double" THEN j.halves ELSE 2 * j.v

\* Integer division truncating toward zero, as C++ does.
TruncDiv(a, b) == IF a >= 0 THEN a \div b ELSE -((-a) \div b)

RECURSIVE JsonEq(_, _)
RECURSIVE SeqJsonEq(_, _)
SeqJsonEq(a, b) ==
    /\ Len(a) = Len(b)
    /\ \A i \in 1..Len(a) : JsonEq(a[i], b[i])

RECURSIVE MembersEq(_, _)
MembersEq(a, b) ==
    /\ Len(a) = Len(b)
    /\ \A i \in 1..Len(a) : a[i].key = b[i].key /\ JsonEq(a[i].value, b[i].value)

\* basic_json operator==: numbers compare by value across kinds.
JsonEq(a, b) ==
    IF IsNumber(a) /\ IsNumber(b) THEN NumH(a) = NumH(b)
    ELSE IF a.type # b.type THEN FALSE
    ELSE IF a.type = "array" THEN SeqJsonEq(a.items, b.items)
    ELSE IF a.type = "object" THEN MembersEq(a.members, b.members)
    ELSE a = b

\* instance.find(key) != instance.object_range().end()
ObjHas(inst, key) == \E i \in 1..Len(inst.members) : inst.members[i].key = key

\* instance.size()
JsonSize(inst) ==
    IF inst.type = "object" THEN Len(inst.members)
    ELSE IF inst.type = "array" THEN Len(inst.items)
    ELSE 0

\* instance.as<int64_t>()
as_int64(j) == IF j.type = "double" THEN TruncDiv(j.halves, 2) ELSE j.v

\* instance.as<T>() for the T of number_keyword<Json,T>, in halves.
as_T(T, j) == IF T = "int64" THEN 2 * as_int64(j) ELSE NumH(j)

\* std::to_string of a non-negative integer, as bytes.
RECURSIVE to_string(_)
to_string(n) == IF n < 10 THEN <<48 + n>> ELSE to_string(n \div 10) \o <<48 + (n % 10)>>

(***************************************************************************)
(* uri_wrapper: the fragment is a JSON Pointer (a sequence of tokens) or a *)
(* plain-name identifier.                                                  *)
(***************************************************************************)
PointerUri(tokens) == [name |-> <<>>, ptr |-> tokens]

has_identifier(u) == u.name # <<>>

append(u, field) ==
    IF has_identifier(u) THEN u
    ELSE [name |-> <<>>, ptr |-> Append(u.ptr, field)]

append_index(u, index) ==
    IF has_identifier(u) THEN u
    ELSE [name |-> <<>>, ptr |-> Append(u.ptr, to_string(index))]

\* uri_wrapper::string()
uri_string(u) == IF has_identifier(u) THEN <<u.name>> ELSE u.ptr

RECURSIVE update_uris(_, _)
update_uris(keys, uri) ==
    IF keys = <<>> THEN uri
    ELSE update_uris(Tail(keys), append(uri, Head(keys)))

\* Keyword names, as bytes.
t_not == <<110, 111, 116>>
t_allOf == <<97, 108, 108, 79, 102>>
t_anyOf == <<97, 110, 121, 79, 102>>
t_oneOf == <<111, 110, 101, 79, 102>>
t_if == <<105, 102>>
t_then == <<116, 104, 101, 110>>
t_else == <<101, 108, 115, 101>>
t_properties == <<112, 114, 111, 112, 101, 114, 116, 105, 101, 115>>
t_additionalProperties ==
    <<97, 100, 100, 105, 116, 105, 111, 110, 97, 108, 80, 114, 111, 112, 101, 114, 116, 105, 101, 115>>
t_required == <<114, 101, 113, 117, 105, 114, 101, 100>>
t_dependencies == <<100, 101, 112, 101, 110, 100, 101, 110, 99, 105, 101, 115>>
t_propertyNames ==
    <<112, 114, 111, 112, 101, 114, 116, 121, 78, 97, 109, 101, 115>>
t_items == <<105, 116, 101, 109, 115>>
t_additionalItems ==
    <<97, 100, 100, 105, 116, 105, 111, 110, 97, 108, 73, 116, 101, 109, 115>>
t_contains == <<99, 111, 110, 116, 97, 105, 110, 115>>

(***************************************************************************)
(* Outputs of a validate call: the errors delivered to the reporter, the   *)
(* entries appended to the patch, and (a history) the nodes whose          *)
(* validate was called, all in call order.                                 *)
(***************************************************************************)
validation_output(loc, msg, args, keyword, akl, nested) ==
    [loc |-> uri_string(loc), msg |-> msg, args |-> args, keyword |-> keyword,
     akl |-> akl, nested |-> nested]

Out(e, p, v) == [errors |-> e, patch |-> p, visited |-> v]

NoOut == Out(<<>>, <<>>, <<>>)

Then(a, b) == Out(a.errors \o b.errors, a.patch \o b.patch, a.visited \o b.visited)

ErrIf(cond, e) == IF cond THEN <<e>> ELSE <<>>

\* Mutant: the entry does not carry the default.
update_patch_drops_value(instance_location, default_value) ==
    [op |-> "add", path |-> uri_string(instance_location), value |-> [type |-> "null"]]

update_patch(instance_location, default_value) ==
    [op |-> "add", path |-> uri_string(instance_location), value |-> default_value]

NullPtr == [kind |-> "nullptr"]

IsNull(node) == node.kind = "nullptr"

\* keyword_validator's constructor argument: the last uri when absolute.
AklOf(uri) == uri_string(uri)

Has(sch, k) == k \in DOMAIN sch


\* The literal "foo" some outputs carry as their keyword location.
Foo == <<<<102, 111, 111>>>>

\* jsoncons::optional<T>: <<>> is the disengaged optional, <<v>> holds v.
None == <<>>
Some(v) == <<v>>

(***************************************************************************)
(* Text helpers of the string validator.                                   *)
(***************************************************************************)
\* json_text_traits<char>::append_codepoint_to_string
append_codepoint_to_string(cp, s) ==
    IF cp <= 127 THEN Append(s, cp)
    ELSE IF cp <= 2047 THEN s \o <<192 + ((cp \div 64) % 32), 128 + (cp % 64)>>
    ELSE IF cp <= 65535 THEN
        s \o <<224 + ((cp \div 4096) % 16), 128 + ((cp \div 64) % 64), 128 + (cp % 64)>>
    ELSE IF cp <= 1114111 THEN
        s \o <<240 + ((cp \div 262144) % 8), 128 + ((cp \div 4096) % 64),
               128 + ((cp \div 64) % 64), 128 + (cp % 64)>>
    ELSE s

RECURSIVE Utf8(_)
Utf8(cps) ==
    IF cps = <<>> THEN <<>>
    ELSE append_codepoint_to_string(cps[Len(cps)], Utf8(SubSeq(cps, 1, Len(cps) - 1)))

\* The number of bytes of the UTF-8 sequence a lead byte starts.
Utf8SeqLen(b) ==
    IF b < 128 THEN 1
    ELSE IF b \div 32 = 6 THEN 2
    ELSE IF b \div 16 = 14 THEN 3
    ELSE IF b \div 8 = 30 THEN 4
    ELSE 0

\* unicons::u32_length: the number of code points of a UTF-8 string.
RECURSIVE u32_length(_)
u32_length(content) ==
    IF content = <<>> THEN 0
    ELSE LET n == Utf8SeqLen(content[1])
         IN IF n = 0 \/ n > Len(content) THEN 0
            ELSE 1 + u32_length(SubSeq(content, n + 1, Len(content)))

\* The value of a base64 character, or -1.
Base64Value(c) ==
    IF c >= 65 /\ c <= 90 THEN c - 65
    ELSE IF c >= 97 /\ c <= 122 THEN c - 97 + 26
    ELSE IF c >= 48 /\ c <= 57 THEN c - 48 + 52
    ELSE IF c = 43 THEN 62
    ELSE IF c = 47 THEN 63
    ELSE -1

\* The bytes a group of i (2..4) base64 values decodes to: i - 1 bytes.
Base64Group(a4, i) ==
    LET v(k) == IF k <= i THEN a4[k] ELSE 0
        b1 == v(1) * 4 + (v(2) \div 16)
        b2 == (v(2) % 16) * 16 + (v(3) \div 4)
        b3 == (v(3) % 4) * 64 + v(4)
    IN SubSeq(<<b1, b2, b3>>, 1, i - 1)

\* jsoncons::decode_base64: decodes up to the first '=', fails on a
\* character outside the alphabet; [ok, content].
RECURSIVE decode_base64(_, _, _)
decode_base64(s, a4, content) ==
    IF s = <<>> \/ s[1] = 61 THEN
        [ok |-> TRUE,
         content |-> IF Len(a4) > 0 THEN content \o Base64Group(a4, Len(a4)) ELSE content]
    ELSE IF Base64Value(s[1]) < 0 THEN [ok |-> FALSE, content |-> content]
    ELSE LET b4 == Append(a4, Base64Value(s[1]))
         IN IF Len(b4) = 4 THEN decode_base64(Tail(s), <<>>, content \o Base64Group(b4, 4))
            ELSE decode_base64(Tail(s), b4, content)

\* json_reader::read: whether the content is a JSON text.  The contents the
\* model produces are JSON texts only when they are a number literal.
JsonParses(content) ==
    /\ Len(content) > 0
    /\ \A i \in 1..Len(content) : content[i] >= 48 /\ content[i] <= 57
    /\ (Len(content) = 1 \/ content[1] # 48)

\* std::regex_search for the patterns of the model: a literal, possibly
\* anchored at the start by '^'.
regex_search(s, re) ==
    LET n == Len(re.lit)
    IN \E i \in 1..(Len(s) - n + 1) :
          /\ (re.anchored => i = 1)
          /\ SubSeq(s, i, i + n - 1) = re.lit

\* The format checkers: the shortest text each format accepts is longer
\* than any content of the model, so every checked content is rejected.
SupportedFormats ==
    {"date-time", "date", "time", "email", "hostname", "ipv4", "ipv6", "regex"}

FormatMinLen(format) ==
    CASE format = "date-time" -> 20
      [] format = "date" -> 10
      [] format = "time" -> 9
      [] format = "ipv4" -> 7
      [] OTHER -> 0

format_check(format, akl, loc, content) ==
    ErrIf(Len(content) < FormatMinLen(format),
          validation_output(loc, "Invalid format", <<>>, "format", akl, <<>>))

(***************************************************************************)
(* string_keyword                                                          *)
(***************************************************************************)
string_keyword(sch, uri) ==
    [kind |-> "string", akl |-> AklOf(uri),
     max_length_ |-> IF Has(sch, "maxLength") THEN Some(sch.maxLength) ELSE None,
     min_length_ |-> IF Has(sch, "minLength") THEN Some(sch.minLength) ELSE None,
     content_encoding_ |->
         IF Has(sch, "contentEncoding") THEN Some(sch.contentEncoding) ELSE None,
     content_media_type_ |->
         IF Has(sch, "contentMediaType") THEN Some(sch.contentMediaType) ELSE None,
     pattern_ |-> IF Has(sch, "pattern") THEN Some(sch.pattern) ELSE None,
     format_check_ |->
         IF Has(sch, "format") /\ sch.format \in SupportedFormats
         THEN sch.format ELSE "nullptr"]

content_media_type_check(loc, content_media_type, content) ==
    ErrIf(content_media_type = "application/Json" /\ ~JsonParses(content),
          validation_output(loc, "Content is not JSON: ", <<>>, "contentMediaType",
                            Foo, <<>>))

\* The decoded content and the errors of the contentEncoding step.
string_content(node, loc, inst) ==
    IF node.content_encoding_ # None THEN
        IF node.content_encoding_[1] = "base64" THEN
            LET retval == decode_base64(inst.s, <<>>, <<>>)
            IN [content |-> retval.content,
                errors |-> ErrIf(~retval.ok,
                    validation_output(loc, "Content is not a base64 string", <<>>,
                                      "contentEncoding", node.akl, <<>>))]
        ELSE IF node.content_encoding_[1] # "" THEN
            [content |-> <<>>,
             errors |-> <<validation_output(loc, "unable to check for contentEncoding",
                                            <<>>, "contentEncoding", node.akl, <<>>)>>]
        ELSE [content |-> <<>>, errors |-> <<>>]
    ELSE [content |-> inst.s, errors |-> <<>>]

string_length_errors(node, loc, content) ==
    LET length == u32_length(content)
    IN ErrIf(node.min_length_ # None /\ length < node.min_length_[1],
             validation_output(loc, "Expected minLength: , actual: ",
                               <<node.min_length_[1], length>>, "minLength", node.akl, <<>>))
       \o
       ErrIf(node.max_length_ # None /\ length > node.max_length_[1],
             validation_output(loc, "Expected maxLength: , actual: ",
                               <<node.max_length_[1], length>>, "maxLength", node.akl, <<>>))

string_do_validate(node, loc, inst) ==
    LET c == string_content(node, loc, inst)
        content == c.content
        media ==
            IF node.content_media_type_ # None THEN
                content_media_type_check(loc, node.content_media_type_[1], content)
            ELSE ErrIf(inst.type = "byte_string",
                       validation_output(loc, "Expected string, but is byte string", <<>>,
                                         "contentMediaType", node.akl, <<>>))
        rest ==
            IF inst.type # "string" THEN <<>>
            ELSE string_length_errors(node, loc, content)
                 \o ErrIf(node.pattern_ # None /\ ~regex_search(content, node.pattern_[1]),
                          validation_output(loc, "does not match pattern", <<>>,
                                            "pattern", node.akl, <<>>))
                 \o (IF node.format_check_ # "nullptr"
                     THEN format_check(node.format_check_, node.akl, loc, content)
                     ELSE <<>>)
    IN Out(c.errors \o media \o rest, <<>>, <<>>)

(***************************************************************************)
(* number_keyword<Json,T>, T int64_t or double.  Values are in halves.     *)
(***************************************************************************)
number_keyword(T, sch, uri) ==
    LET max1 == IF Has(sch, "maximum") THEN Some(as_T(T, sch.maximum)) ELSE None
        min1 == IF Has(sch, "minimum") THEN Some(as_T(T, sch.minimum)) ELSE None
    IN [kind |-> "number", T |-> T, akl |-> AklOf(uri),
        maximum_ |-> IF Has(sch, "exclusiveMaximum")
                     THEN Some(as_T(T, sch.exclusiveMaximum)) ELSE max1,
        minimum_ |-> IF Has(sch, "exclusiveMinimum")
                     THEN Some(as_T(T, sch.exclusiveMinimum)) ELSE min1,
        exclusive_maximum_ |-> Has(sch, "exclusiveMaximum"),
        exclusive_minimum_ |-> Has(sch, "exclusiveMinimum"),
        multiple_of_ |-> IF Has(sch, "multipleOf") THEN Some(NumH(sch.multipleOf)) ELSE None]

\* |remainder(x, m)| > one ULP of x: for the exactly representable values
\* of the model, x is not a whole multiple of m.
violates_multiple_of(x, m) == m # 0 /\ x % (IF m < 0 THEN -m ELSE m) # 0

number_do_validate(node, loc, inst) ==
    LET value == as_T(node.T, inst)
    IN Out(
        ErrIf(value # NumH(inst),
              validation_output(loc, "Instance is not a number", <<>>, "number",
                                node.akl, <<>>))
        \o
        ErrIf(node.multiple_of_ # None /\ value # 0
                 /\ violates_multiple_of(value, node.multiple_of_[1]),
              validation_output(loc, "is not a multiple of", <<>>, "multipleOf",
                                node.akl, <<>>))
        \o
        ErrIf(node.maximum_ # None
                 /\ ((node.exclusive_maximum_ /\ value >= node.maximum_[1])
                     \/ value > node.maximum_[1]),
              validation_output(loc, "exceeds maximum of", <<>>, "maximum",
                                node.akl, <<>>))
        \o
        ErrIf(node.minimum_ # None
                 /\ ((node.exclusive_minimum_ /\ value <= node.minimum_[1])
                     \/ value < node.minimum_[1]),
              validation_output(loc, "is below minimum of", <<>>, "minimum",
                                node.akl, <<>>)),
        <<>>, <<>>)


(***************************************************************************)
(* Leaf validators.                                                        *)
(***************************************************************************)
null_keyword(uri) == [kind |-> "null", akl |-> AklOf(uri)]
boolean_keyword(uri) == [kind |-> "boolean", akl |-> AklOf(uri)]
true_keyword(uri) == [kind |-> "true", akl |-> AklOf(uri)]
false_keyword(uri) == [kind |-> "false", akl |-> AklOf(uri)]
required_keyword(uri, items) == [kind |-> "required", akl |-> AklOf(uri), required_ |-> items]
enum_keyword(sch, uri) == [kind |-> "enum", akl |-> AklOf(uri), enum_ |-> sch]
const_keyword(sch, uri) == [kind |-> "const", akl |-> AklOf(uri), const_ |-> sch]

null_do_validate(node, loc, inst) ==
    Out(ErrIf(inst.type # "null",
              validation_output(loc, "Expected to be null", <<>>, "null", node.akl, <<>>)),
        <<>>, <<>>)

boolean_do_validate(node, loc, inst) == NoOut

true_do_validate(node, loc, inst) == NoOut

false_do_validate(node, loc, inst) ==
    Out(<<validation_output(loc, "False schema always fails", <<>>, "false", node.akl, <<>>)>>,
        <<>>, <<>>)

RECURSIVE required_errors(_, _, _, _)
required_errors(node, loc, inst, i) ==
    IF i > Len(node.required_) THEN <<>>
    ELSE ErrIf(~ObjHas(inst, node.required_[i]),
               validation_output(loc, "Required property not found", node.required_[i],
                                 "required", node.akl, <<>>))
         \o required_errors(node, loc, inst, i + 1)

required_do_validate(node, loc, inst) == Out(required_errors(node, loc, inst, 1), <<>>, <<>>)

enum_do_validate(node, loc, inst) ==
    LET in_range == \E i \in 1..Len(node.enum_) : JsonEq(node.enum_[i], inst)
    IN Out(ErrIf(~in_range,
                 validation_output(loc, "is not a valid enum value", <<>>, "enum",
                                   node.akl, <<>>)),
           <<>>, <<>>)

const_do_validate(node, loc, inst) ==
    Out(ErrIf(~JsonEq(node.const_, inst),
              validation_output(loc, "Instance is not const", <<>>, "const", node.akl, <<>>)),
        <<>>, <<>>)

(***************************************************************************)
(* keyword_validator::validate and get_default_value.                      *)
(***************************************************************************)
RECURSIVE validate(_, _, _)

RECURSIVE get_default_value(_)

RECURSIVE ConcatOut(_)
ConcatOut(outs) ==
    IF outs = <<>> THEN NoOut ELSE Then(Head(outs), ConcatOut(Tail(outs)))

\* validate through a possibly null schema_pointer guarded by the caller.
ValidateIf(cond, node, loc, inst) == IF cond THEN validate(node, loc, inst) ELSE NoOut

(***************************************************************************)
(* not_keyword                                                             *)
(***************************************************************************)
\* Mutant: what the rule adds to the patch is dropped with its errors.
not_do_validate_drops_patch(node, loc, inst) ==
    LET r == validate(node.rule_, loc, inst)
    IN Out(ErrIf(r.errors = <<>>,
                 validation_output(loc, "Instance must not be valid against schema", <<>>,
                                   "not", node.akl, <<>>)),
           <<>>, r.visited)

not_do_validate(node, loc, inst) ==
    LET r == validate(node.rule_, loc, inst)
    IN Out(ErrIf(r.errors = <<>>,
                 validation_output(loc, "Instance must not be valid against schema", <<>>,
                                   "not", node.akl, <<>>)),
           r.patch, r.visited)

(***************************************************************************)
(* combining_keyword<Json,Criterion>                                       *)
(***************************************************************************)
\* Each is_complete gives whether the loop returns and what it reported.
all_of_criterion_is_complete(loc, local_errors, count) ==
    [complete |-> local_errors # <<>>,
     errors |-> ErrIf(local_errors # <<>>,
                      validation_output(loc, "At least one keyword_validator failed to match, but all are required to match. ",
                                        <<>>, "allOf", Foo, local_errors))]

\* Mutant: anyOf never short-circuits.
any_of_criterion_never_complete(loc, local_errors, count) ==
    [complete |-> FALSE, errors |-> <<>>]

any_of_criterion_is_complete(loc, local_errors, count) ==
    [complete |-> count = 1, errors |-> <<>>]

\* Mutant: oneOf tolerates two matching children.
one_of_criterion_off_by_one(loc, local_errors, count) ==
    [complete |-> count > 2,
     errors |-> ErrIf(count > 2,
                      validation_output(loc, " subschemas matched, but exactly one is required to match",
                                        <<count>>, "oneOf", Foo, <<>>))]

one_of_criterion_is_complete(loc, local_errors, count) ==
    [complete |-> count > 1,
     errors |-> ErrIf(count > 1,
                      validation_output(loc, " subschemas matched, but exactly one is required to match",
                                        <<count>>, "oneOf", Foo, <<>>))]

is_complete(criterion, loc, local_errors, count) ==
    CASE criterion = "allOf" -> all_of_criterion_is_complete(loc, local_errors, count)
      [] criterion = "anyOf" -> any_of_criterion_is_complete(loc, local_errors, count)
      [] criterion = "oneOf" -> one_of_criterion_is_complete(loc, local_errors, count)

\* The loop over subschemas_ from child i on; out holds what the outer
\* reporter, the patch and the history received so far.
RECURSIVE combining_loop(_, _, _, _, _, _, _)
combining_loop(node, loc, inst, i, count, local_errors, out) ==
    IF i > Len(node.subschemas_) THEN
        Then(out,
             Out(ErrIf(count = 0,
                       validation_output(loc, "No keyword_validator matched, but one of them is required to match",
                                         <<>>, "combined", node.akl, local_errors)),
                 <<>>, <<>>))
    ELSE LET r == validate(node.subschemas_[i], loc, inst)
             mark == Len(local_errors)
             local2 == local_errors \o r.errors
             count2 == IF mark = Len(local2) THEN count + 1 ELSE count
             c == is_complete(node.criterion, loc, local2, count2)
             out2 == Then(out, Out(c.errors, r.patch, r.visited))
         IN IF c.complete THEN out2
            ELSE combining_loop(node, loc, inst, i + 1, count2, local2, out2)

combining_do_validate(node, loc, inst) ==
    combining_loop(node, loc, inst, 1, 0, <<>>, NoOut)

(***************************************************************************)
(* conditional_keyword                                                     *)
(***************************************************************************)
\* Mutant: the errors of `if` go to the outer reporter.
conditional_do_validate_reports_if(node, loc, inst) ==
    IF ~IsNull(node.if_) THEN
        LET r == validate(node.if_, loc, inst)
        IN IF r.errors = <<>> THEN
               Then(r, ValidateIf(~IsNull(node.then_), node.then_, loc, inst))
           ELSE
               Then(r, ValidateIf(~IsNull(node.else_), node.else_, loc, inst))
    ELSE NoOut

conditional_do_validate(node, loc, inst) ==
    IF ~IsNull(node.if_) THEN
        LET r == validate(node.if_, loc, inst)
            cond == Out(<<>>, r.patch, r.visited)
        IN IF r.errors = <<>> THEN
               Then(cond, ValidateIf(~IsNull(node.then_), node.then_, loc, inst))
           ELSE
               Then(cond, ValidateIf(~IsNull(node.else_), node.else_, loc, inst))
    ELSE NoOut


(***************************************************************************)
(* object_keyword                                                          *)
(***************************************************************************)
\* Mutant: no key is found among the declared properties.
FindProperty_finds_nothing(properties, key) == 0

\* properties_.find(key): the index of the entry, or 0.
FindProperty(properties, key) ==
    IF \E i \in 1..Len(properties) : properties[i].key = key
    THEN CHOOSE i \in 1..Len(properties) : properties[i].key = key
    ELSE 0

\* The body of the loop over the instance's properties, for one property.
object_property(node, loc, inst, property) ==
    LET names == ValidateIf(~IsNull(node.property_names_), node.property_names_,
                            loc, JStr(property.key))
        properties_it == FindProperty(node.properties_, property.key)
        in_properties ==
            IF properties_it # 0
            THEN validate(node.properties_[properties_it].node,
                          append(loc, property.key), property.value)
            ELSE NoOut
        in_patterns ==
            ConcatOut([k \in 1..Len(node.pattern_properties_) |->
                IF regex_search(property.key, node.pattern_properties_[k].regex)
                THEN validate(node.pattern_properties_[k].node,
                              append(loc, property.key), property.value)
                ELSE NoOut])
        a_prop_or_pattern_matched ==
            \/ properties_it # 0
            \/ \E k \in 1..Len(node.pattern_properties_) :
                  regex_search(property.key, node.pattern_properties_[k].regex)
        additional ==
            IF ~a_prop_or_pattern_matched /\ ~IsNull(node.additional_properties_) THEN
                LET r == validate(node.additional_properties_,
                                  append(loc, property.key), property.value)
                IN Out(ErrIf(r.errors # <<>>,
                             validation_output(loc, "Additional property found but was invalid.",
                                               property.key, "additionalProperties",
                                               node.additional_properties_.akl, <<>>)),
                       r.patch, r.visited)
            ELSE NoOut
    IN Then(Then(names, in_properties), Then(in_patterns, additional))

\* The reverse search: a patch entry for each declared property the
\* instance lacks and whose sub-schema yields a default.
object_defaults(node, loc, inst) ==
    ConcatOut([k \in 1..Len(node.properties_) |->
        IF ~ObjHas(inst, node.properties_[k].key) THEN
            LET default_value == get_default_value(node.properties_[k].node)
            IN IF default_value # None
               THEN Out(<<>>,
                        <<update_patch(append(loc, node.properties_[k].key),
                                       default_value[1])>>,
                        <<>>)
               ELSE NoOut
        ELSE NoOut])

object_do_validate(node, loc, inst) ==
    LET counts ==
            Out(ErrIf(node.max_properties_ # None /\ JsonSize(inst) > node.max_properties_[1],
                      validation_output(loc, "Maximum properties: , found: ",
                                        <<node.max_properties_[1], JsonSize(inst)>>,
                                        "maxProperties", node.akl, <<>>))
                \o
                ErrIf(node.min_properties_ # None /\ JsonSize(inst) < node.min_properties_[1],
                      validation_output(loc, "Minimum properties: , found: ",
                                        <<node.min_properties_[1], JsonSize(inst)>>,
                                        "minProperties", node.akl, <<>>)),
                <<>>, <<>>)
        required ==
            IF node.required_ # None THEN validate(node.required_[1], loc, inst) ELSE NoOut
        properties ==
            ConcatOut([i \in 1..Len(inst.members) |->
                          object_property(node, loc, inst, inst.members[i])])
        dependencies ==
            ConcatOut([k \in 1..Len(node.dependencies_) |->
                ValidateIf(ObjHas(inst, node.dependencies_[k].key),
                           node.dependencies_[k].node,
                           append(loc, node.dependencies_[k].key), inst)])
    IN Then(Then(Then(counts, required), properties),
            Then(object_defaults(node, loc, inst), dependencies))

(***************************************************************************)
(* array_keyword                                                           *)
(***************************************************************************)
\* One error for each element that has an equal element after it.
unique_items_errors(node, loc, inst) ==
    LET n == Len(inst.items)
        at(i) == ErrIf(\E j \in (i + 1)..n : JsonEq(inst.items[j], inst.items[i]),
                       validation_output(loc, "Array items are not unique", <<>>,
                                         "uniqueItems", node.akl, <<>>))
        Cat[i \in 0..n] == IF i = 0 THEN <<>> ELSE Cat[i - 1] \o at(i)
    IN Cat[n]

\* Mutant: the iterator into items_ is never advanced.
RECURSIVE array_items_loop_never_advances(_, _, _, _, _, _)
array_items_loop_never_advances(node, loc, inst, i, item, index) ==
    IF i > Len(inst.items) THEN NoOut
    ELSE LET item_validator ==
                 IF item > Len(node.items_) THEN node.additional_items_
                 ELSE node.items_[item]
         IN IF IsNull(item_validator) THEN NoOut
            ELSE Then(validate(item_validator, append_index(loc, index), inst.items[i]),
                      array_items_loop_never_advances(node, loc, inst, i + 1, item, index))

\* The list form of items: the loop from element i on, with the iterator
\* into items_ at position item; index stays as it was set before the loop.
RECURSIVE array_items_loop(_, _, _, _, _, _)
array_items_loop(node, loc, inst, i, item, index) ==
    IF i > Len(inst.items) THEN NoOut
    ELSE LET item_validator ==
                 IF item > Len(node.items_) THEN node.additional_items_
                 ELSE node.items_[item]
             next_item == IF item > Len(node.items_) THEN item ELSE item + 1
         IN IF IsNull(item_validator) THEN NoOut
            ELSE Then(validate(item_validator, append_index(loc, index), inst.items[i]),
                      array_items_loop(node, loc, inst, i + 1, next_item, index))

\* The loop over the elements for contains, from element i on.
RECURSIVE contains_loop(_, _, _, _, _, _)
contains_loop(node, loc, inst, i, local_errors, out) ==
    IF i > Len(inst.items) THEN
        Then(out,
             Out(<<validation_output(loc, "Expected at least one array item to match contains schema",
                                     <<>>, "contains", node.akl, local_errors)>>,
                 <<>>, <<>>))
    ELSE LET r == validate(node.contains_, loc, inst.items[i])
             out2 == Then(out, Out(<<>>, r.patch, r.visited))
         IN IF r.errors = <<>> THEN out2
            ELSE contains_loop(node, loc, inst, i + 1, local_errors \o r.errors, out2)

array_do_validate(node, loc, inst) ==
    LET counts ==
            Out(ErrIf(node.max_items_ # None /\ JsonSize(inst) > node.max_items_[1],
                      validation_output(loc, "Expected maximum item count: , found: ",
                                        <<node.max_items_[1], JsonSize(inst)>>,
                                        "maxItems", node.akl, <<>>))
                \o
                ErrIf(node.min_items_ # None /\ JsonSize(inst) < node.min_items_[1],
                      validation_output(loc, "Expected at least items but found ",
                                        <<node.min_items_[1], JsonSize(inst)>>,
                                        "minItems", node.akl, <<>>))
                \o
                (IF node.unique_items_ THEN unique_items_errors(node, loc, inst) ELSE <<>>),
                <<>>, <<>>)
        items ==
            IF ~IsNull(node.items_schema_) THEN
                ConcatOut([i \in 1..Len(inst.items) |->
                    validate(node.items_schema_, append_index(loc, i - 1), inst.items[i])])
            ELSE array_items_loop(node, loc, inst, 1, 1, 0)
        contains ==
            IF ~IsNull(node.contains_) THEN contains_loop(node, loc, inst, 1, <<>>, NoOut)
            ELSE NoOut
    IN Then(Then(counts, items), contains)


(***************************************************************************)
(* type_keyword                                                            *)
(***************************************************************************)
\* Mutant: after a kind mismatch the node reports and returns.
type_do_validate_returns_on_mismatch(node, loc, inst) ==
    LET type == node.type_mapping_[inst.type]
    IN IF ~IsNull(type) THEN validate(type, loc, inst)
       ELSE Out(<<validation_output(loc, "Expected , found ", <<>>, "type",
                                    node.akl, <<>>)>>, <<>>, <<>>)

type_do_validate(node, loc, inst) ==
    LET type == node.type_mapping_[inst.type]
        kind ==
            IF ~IsNull(type) THEN validate(type, loc, inst)
            ELSE Out(<<validation_output(loc, "Expected , found ", <<>>, "type",
                                         node.akl, <<>>)>>, <<>>, <<>>)
        enum == IF node.enum_ # None THEN validate(node.enum_[1], loc, inst) ELSE NoOut
        const == IF node.const_ # None THEN validate(node.const_[1], loc, inst) ELSE NoOut
        combined ==
            ConcatOut([k \in 1..Len(node.combined_) |-> validate(node.combined_[k], loc, inst)])
        conditional ==
            IF node.conditional_ # None THEN validate(node.conditional_[1], loc, inst)
            ELSE NoOut
    IN Then(Then(Then(kind, enum), Then(const, combined)), conditional)

type_keyword_get_default_value(node) == Some(node.default_value_)

get_default_value(node) ==
    CASE node.kind = "type" -> type_keyword_get_default_value(node)
      [] node.kind = "not" -> get_default_value(node.rule_)
      [] OTHER -> None

do_validate(node, loc, inst) ==
    CASE node.kind = "type" -> type_do_validate(node, loc, inst)
      [] node.kind = "null" -> null_do_validate(node, loc, inst)
      [] node.kind = "boolean" -> boolean_do_validate(node, loc, inst)
      [] node.kind = "true" -> true_do_validate(node, loc, inst)
      [] node.kind = "false" -> false_do_validate(node, loc, inst)
      [] node.kind = "string" -> string_do_validate(node, loc, inst)
      [] node.kind = "number" -> number_do_validate(node, loc, inst)
      [] node.kind = "object" -> object_do_validate(node, loc, inst)
      [] node.kind = "array" -> array_do_validate(node, loc, inst)
      [] node.kind = "required" -> required_do_validate(node, loc, inst)
      [] node.kind = "enum" -> enum_do_validate(node, loc, inst)
      [] node.kind = "const" -> const_do_validate(node, loc, inst)
      [] node.kind = "not" -> not_do_validate(node, loc, inst)
      [] node.kind = "combining" -> combining_do_validate(node, loc, inst)
      [] node.kind = "conditional" -> conditional_do_validate(node, loc, inst)

\* The history records the call before what the call itself does.
validate(node, loc, inst) ==
    Then(Out(<<>>, <<>>,
             <<[kind |-> node.kind, akl |-> node.akl, loc |-> uri_string(loc),
                inst |-> inst]>>),
         do_validate(node, loc, inst))

(***************************************************************************)
(* Construction of the validator graph from a schema document.  A schema   *)
(* is a record of its keywords; a boolean schema is [bool |-> b].          *)
(***************************************************************************)
RECURSIVE build(_, _, _)

not_keyword(sch, uri) ==
    [kind |-> "not", akl |-> AklOf(uri), rule_ |-> build(sch, <<t_not>>, uri)]

combining_keyword(criterion, key, sch, uri) ==
    [kind |-> "combining", criterion |-> criterion, akl |-> AklOf(uri),
     subschemas_ |-> [c \in 1..Len(sch) |-> build(sch[c], <<key, to_string(c - 1)>>, uri)]]

conditional_keyword(sch_if, sch, uri) ==
    LET any == Has(sch, "then") \/ Has(sch, "else")
    IN [kind |-> "conditional", akl |-> AklOf(uri),
        if_ |-> IF any THEN build(sch_if, <<t_if>>, uri) ELSE NullPtr,
        then_ |-> IF any /\ Has(sch, "then") THEN build(sch.then, <<t_then>>, uri)
                  ELSE NullPtr,
        else_ |-> IF any /\ Has(sch, "else") THEN build(sch.else, <<t_else>>, uri)
                  ELSE NullPtr]

\* std::less<std::string>: byte-wise lexicographic order.
RECURSIVE string_less(_, _)
string_less(a, b) ==
    IF b = <<>> THEN FALSE
    ELSE IF a = <<>> THEN TRUE
    ELSE IF a[1] # b[1] THEN a[1] < b[1]
    ELSE string_less(Tail(a), Tail(b))

\* std::map::emplace: the entry goes to its place in key order, and is
\* dropped when the key is already there.
map_emplace(m, entry) ==
    IF \E i \in 1..Len(m) : m[i].key = entry.key THEN m
    ELSE LET before == Cardinality({i \in 1..Len(m) : string_less(m[i].key, entry.key)})
         IN SubSeq(m, 1, before) \o <<entry>> \o SubSeq(m, before + 1, Len(m))

RECURSIVE map_of(_)
map_of(entries) ==
    IF entries = <<>> THEN <<>>
    ELSE map_emplace(map_of(SubSeq(entries, 1, Len(entries) - 1)), entries[Len(entries)])

object_keyword(sch, uri) ==
    [kind |-> "object", akl |-> AklOf(uri),
     max_properties_ |-> IF Has(sch, "maxProperties") THEN Some(sch.maxProperties) ELSE None,
     min_properties_ |-> IF Has(sch, "minProperties") THEN Some(sch.minProperties) ELSE None,
     required_ |-> IF Has(sch, "required")
                   THEN Some(required_keyword(append(uri, t_required), sch.required))
                   ELSE None,
     properties_ |->
         IF Has(sch, "properties")
         THEN map_of([k \in 1..Len(sch.properties) |->
                  [key |-> sch.properties[k].key,
                   node |-> build(sch.properties[k].schema,
                                  <<t_properties, sch.properties[k].key>>, uri)]])
         ELSE <<>>,
     pattern_properties_ |->
         IF Has(sch, "patternProperties")
         THEN [k \in 1..Len(sch.patternProperties) |->
                  [regex |-> sch.patternProperties[k].regex,
                   node |-> build(sch.patternProperties[k].schema,
                                  <<sch.patternProperties[k].regex.lit>>, uri)]]
         ELSE <<>>,
     additional_properties_ |->
         IF Has(sch, "additionalProperties")
         THEN build(sch.additionalProperties, <<t_additionalProperties>>, uri)
         ELSE NullPtr,
     dependencies_ |->
         IF Has(sch, "dependencies")
         THEN map_of([k \in 1..Len(sch.dependencies) |->
                  [key |-> sch.dependencies[k].key,
                   node |->
                       IF Has(sch.dependencies[k], "required")
                       THEN required_keyword(update_uris(<<t_required>>, uri),
                                             sch.dependencies[k].required)
                       ELSE build(sch.dependencies[k].schema,
                                  <<t_dependencies, sch.dependencies[k].key>>, uri)]])
         ELSE <<>>,
     property_names_ |->
         IF Has(sch, "propertyNames") THEN build(sch.propertyNames, <<t_propertyNames>>, uri)
         ELSE NullPtr]

array_keyword(sch, uri) ==
    LET list == Has(sch, "items") /\ sch.items.form = "array"
    IN [kind |-> "array", akl |-> AklOf(uri),
        max_items_ |-> IF Has(sch, "maxItems") THEN Some(sch.maxItems) ELSE None,
        min_items_ |-> IF Has(sch, "minItems") THEN Some(sch.minItems) ELSE None,
        unique_items_ |-> IF Has(sch, "uniqueItems") THEN sch.uniqueItems ELSE FALSE,
        items_schema_ |->
            IF Has(sch, "items") /\ sch.items.form = "schema"
            THEN build(sch.items.schema, <<t_items>>, uri) ELSE NullPtr,
        items_ |->
            IF list
            THEN [c \in 1..Len(sch.items.list) |->
                     build(sch.items.list[c], <<t_items, to_string(c - 1)>>, uri)]
            ELSE <<>>,
        additional_items_ |->
            IF list /\ Has(sch, "additionalItems")
            THEN build(sch.additionalItems, <<t_additionalItems>>, uri) ELSE NullPtr,
        contains_ |->
            IF Has(sch, "contains") THEN build(sch.contains, <<t_contains>>, uri)
            ELSE NullPtr]

JsonTypes ==
    {"null", "bool", "int64", "uint64", "double", "string", "byte_string", "array", "object"}

\* Mutant: "string" does not cover byte strings.
initialize_type_mapping_no_bytes(tm, type, sch, uri) ==
    IF type = "string" THEN [tm EXCEPT !["string"] = string_keyword(sch, uri)] ELSE tm

\* One call of initialize_type_mapping: the assignments in source order,
\* later ones overwriting earlier ones.
initialize_type_mapping(tm, type, sch, uri) ==
    LET on(name) == type = "" \/ type = name
        m1 == IF on("null") THEN [tm EXCEPT !["null"] = null_keyword(uri)] ELSE tm
        m2 == IF on("object") THEN [m1 EXCEPT !["object"] = object_keyword(sch, uri)] ELSE m1
        m3 == IF on("array") THEN [m2 EXCEPT !["array"] = array_keyword(sch, uri)] ELSE m2
        m4 == IF on("string")
              THEN [m3 EXCEPT !["string"] = string_keyword(sch, uri),
                              !["byte_string"] = string_keyword(sch, uri)]
              ELSE m3
        m5 == IF on("boolean") THEN [m4 EXCEPT !["bool"] = boolean_keyword(uri)] ELSE m4
        m6 == IF on("integer")
              THEN [m5 EXCEPT !["int64"] = number_keyword("int64", sch, uri),
                              !["uint64"] = number_keyword("int64", sch, uri),
                              !["double"] = number_keyword("int64", sch, uri)]
              ELSE m5
        m7 == IF on("number")
              THEN [m6 EXCEPT !["double"] = number_keyword("double", sch, uri),
                              !["int64"] = number_keyword("double", sch, uri),
                              !["uint64"] = number_keyword("double", sch, uri)]
              ELSE m6
    IN m7

RECURSIVE type_mapping_of(_, _, _, _)
type_mapping_of(tm, types, sch, uri) ==
    IF types = <<>> THEN tm
    ELSE type_mapping_of(initialize_type_mapping(tm, Head(types), sch, uri),
                         Tail(types), sch, uri)

type_keyword(sch, uri) ==
    LET empty == [t \in JsonTypes |-> NullPtr]
    IN [kind |-> "type", akl |-> AklOf(uri),
        default_value_ |-> IF Has(sch, "default") THEN sch.default ELSE JNull,
        type_mapping_ |->
            IF ~Has(sch, "type") THEN initialize_type_mapping(empty, "", sch, uri)
            ELSE type_mapping_of(empty, sch.type.names, sch, uri),
        expected_types_ |-> IF Has(sch, "type") THEN sch.type.names ELSE <<>>,
        enum_ |-> IF Has(sch, "enum") THEN Some(enum_keyword(sch.enum, uri)) ELSE None,
        const_ |-> IF Has(sch, "const") THEN Some(const_keyword(sch.const, uri)) ELSE None,
        combined_ |->
            (IF Has(sch, "not") THEN <<not_keyword(sch.not, uri)>> ELSE <<>>)
            \o (IF Has(sch, "allOf")
                THEN <<combining_keyword("allOf", t_allOf, sch.allOf, uri)>> ELSE <<>>)
            \o (IF Has(sch, "anyOf")
                THEN <<combining_keyword("anyOf", t_anyOf, sch.anyOf, uri)>> ELSE <<>>)
            \o (IF Has(sch, "oneOf")
                THEN <<combining_keyword("oneOf", t_oneOf, sch.oneOf, uri)>> ELSE <<>>),
        conditional_ |->
            IF Has(sch, "if") THEN Some(conditional_keyword(sch.if, sch, uri)) ELSE None]

\* schema_builder::build for boolean and object schemas without $id/$ref.
build(sch, keys, uri) ==
    LET new_uri == update_uris(keys, uri)
    IN IF Has(sch, "bool")
       THEN (IF sch.bool THEN true_keyword(new_uri) ELSE false_keyword(new_uri))
       ELSE type_keyword(sch, new_uri)


(***************************************************************************)
(* The state machine: a validator graph is built from a schema, then one   *)
(* instance is validated against it with a fresh reporter and patch.       *)
(***************************************************************************)
RootUri == PointerUri(<<>>)

RootLocation == PointerUri(<<>>)

SeqsUpTo(S, n) == UNION {[1..k -> S] : k \in 0..n}

TypeOf(names) == [type |-> [names |-> names]]

\* After construction: the graph of a schema of the family, nothing validated.
Built(schemas) ==
    /\ schema \in schemas
    /\ root = build(schema, <<>>, RootUri)
    /\ instance = JNull
    /\ errors = <<>>
    /\ patch = <<>>
    /\ visited = <<>>
    /\ pc = "built"
    /\ NoSource

\* One validate call on the root with an instance of the family.
Validate(instances) ==
    /\ pc = "built"
    /\ \E inst \in instances :
          LET r == validate(root, RootLocation, inst)
          IN /\ instance' = inst
             /\ errors' = r.errors
             /\ patch' = r.patch
             /\ visited' = r.visited
    /\ pc' = "validated"
    /\ UNCHANGED <<schema, root>>
    /\ UNCHANGED sourceVars

(***************************************************************************)
(* allOf / anyOf / oneOf over boolean and type-only children.              *)
(***************************************************************************)
ChildSchemas ==
    {[bool |-> TRUE], [bool |-> FALSE], TypeOf(<<"integer">>), TypeOf(<<"number">>)}

CombiningSchemas ==
    LET lists == SeqsUpTo(ChildSchemas, MaxChildren)
    IN {[allOf |-> c] : c \in lists} \cup {[anyOf |-> c] : c \in lists}
       \cup {[oneOf |-> c] : c \in lists}

CombiningInstances == {JInt(3), JDouble(3), JStr(<<81>>)}

InitCombining == Built(CombiningSchemas)

ValidateCombining == Validate(CombiningInstances)

SpecCombining == InitCombining /\ [][ValidateCombining]_vars

\* The combining node of the root and its children.
CombiningNode == root.combined_[1]

Children == CombiningNode.subschemas_

\* What child i reports when it alone validates the instance.
ChildErrors(i) == validate(Children[i], RootLocation, instance).errors

Passing == {i \in 1..Len(Children) : ChildErrors(i) = <<>>}

Failing == {i \in 1..Len(Children) : ChildErrors(i) # <<>>}

\* Whether validate was called on child i during the call.
ChildVisited(i) == \E k \in 1..Len(visited) : visited[k].akl = Children[i].akl

\* The errors of the children in a set, in child order.
RECURSIVE ErrorsOfChildren(_, _)
ErrorsOfChildren(S, i) ==
    IF i > Len(Children) THEN <<>>
    ELSE (IF i \in S THEN ChildErrors(i) ELSE <<>>) \o ErrorsOfChildren(S, i + 1)

\* C1: oneOf delivers exactly one error to the outer reporter when the
\* number of children the instance passes differs from 1, and no error when
\* exactly one child passes.
C1_OneOfErrorCount ==
    (pc = "validated" /\ Has(schema, "oneOf")) =>
        Len(errors) = (IF Cardinality(Passing) # 1 THEN 1 ELSE 0)

C1_Witness ==
    /\ pc = "validated" /\ Has(schema, "oneOf")
    /\ Cardinality(Passing) = 2
    /\ Len(errors) = 1

\* C2 (as claimed): allOf validates every child, and when at least one child
\* fails it reports exactly one allOf error whose nested list holds the
\* errors of every failing child.
C2_AllOfRunsAllChildren ==
    (pc = "validated" /\ Has(schema, "allOf")) =>
        /\ \A i \in 1..Len(Children) : ChildVisited(i)
        /\ (Failing # {} =>
               /\ Len(errors) = 1
               /\ errors[1].keyword = "allOf"
               /\ errors[1].nested = ErrorsOfChildren(Failing, 1))

\* C3: anyOf reports nothing when some child passes and then does not
\* validate the children after the first passing child; when no child
\* passes it reports exactly one error whose nested list holds the errors
\* of all children.
C3_AnyOfShortCircuit ==
    (pc = "validated" /\ Has(schema, "anyOf")) =>
        IF Passing # {} THEN
            LET first == CHOOSE i \in Passing : \A j \in Passing : i <= j
            IN /\ errors = <<>>
               /\ \A i \in 1..Len(Children) : ChildVisited(i) <=> i <= first
        ELSE
            /\ Len(errors) = 1
            /\ errors[1].nested = ErrorsOfChildren(1..Len(Children), 1)
            /\ \A i \in 1..Len(Children) : ChildVisited(i)

C3_Witness ==
    /\ pc = "validated" /\ Has(schema, "anyOf")
    /\ Len(Children) = 3
    /\ Passing = {2, 3}
    /\ ~ChildVisited(3)


(***************************************************************************)
(* Object schemas with declared properties, with and without defaults.     *)
(***************************************************************************)
KeyX == <<120>>
KeyY == <<121>>
KeyZ == <<122>>

PropertySchemas ==
    {TypeOf(<<"integer">>),
     [type |-> [names |-> <<"integer">>], default |-> JInt(7)],
     [type |-> [names |-> <<"string">>], default |-> JStr(<<81>>)],
     [default |-> JNull],
     [bool |-> TRUE]}

ObjectSchemas ==
    LET props ==
            {<<[key |-> KeyX, schema |-> sx]>> : sx \in PropertySchemas}
            \cup {<<[key |-> KeyX, schema |-> sx], [key |-> KeyY, schema |-> sy]>> :
                     sx \in PropertySchemas, sy \in PropertySchemas}
    IN {[type |-> [names |-> <<"object">>], properties |-> p] : p \in props}
       \cup {[type |-> [names |-> <<"object">>], properties |-> p, required |-> <<KeyX>>] :
                p \in props}

\* The members of an object over the keys x, y, z, in key order.
ObjectInstances ==
    LET vals == {JNull, JInt(1), JStr(<<81>>)}
        member(k, v) == IF v = JNull THEN <<>> ELSE <<[key |-> k, value |-> v]>>
    IN {JObj(member(KeyX, vx) \o member(KeyY, vy) \o member(KeyZ, vz)) :
           vx \in vals, vy \in vals, vz \in vals}

InitObject == Built(ObjectSchemas)

ValidateObject == Validate(ObjectInstances)

SpecObject == InitObject /\ [][ValidateObject]_vars

ObjectNode == root.type_mapping_["object"]

Declared == 1..Len(schema.properties)

PatchEntriesAt(path) == {k \in 1..Len(patch) : patch[k].path = path}

\* C4 (as claimed): a declared property whose sub-schema is a type node
\* without a configured default yields no default value, so an instance
\* lacking it gets no patch entry for it.
C4_MissingDefaultNoPatch ==
    pc = "validated" =>
        \A k \in Declared :
            LET p == schema.properties[k]
            IN (~Has(p.schema, "bool") /\ ~Has(p.schema, "default")
                /\ ~ObjHas(instance, p.key)) =>
                   /\ get_default_value(ObjectNode.properties_[k].node) = None
                   /\ PatchEntriesAt(<<p.key>>) = {}

\* C5: a declared property with a configured default d that the instance
\* lacks gets exactly one patch entry {add, location/key, d} and no error;
\* a declared property the instance has gets no patch entry.
C5_DefaultFilledIn ==
    pc = "validated" =>
        \A k \in Declared :
            LET p == schema.properties[k]
            IN /\ (Has(p.schema, "default") /\ ~ObjHas(instance, p.key)) =>
                      /\ Cardinality(PatchEntriesAt(<<p.key>>)) = 1
                      /\ \A e \in PatchEntriesAt(<<p.key>>) :
                            patch[e] = [op |-> "add", path |-> <<p.key>>,
                                        value |-> p.schema.default]
                      /\ \A e \in 1..Len(errors) : errors[e].loc # <<p.key>>
               /\ ObjHas(instance, p.key) => PatchEntriesAt(<<p.key>>) = {}

C5_Witness ==
    /\ pc = "validated"
    /\ Len(schema.properties) = 2
    /\ Has(schema.properties[1].schema, "default")
    /\ schema.properties[1].schema.default = JInt(7)
    /\ ~ObjHas(instance, KeyX) /\ ObjHas(instance, KeyY)
    /\ \E e \in 1..Len(patch) :
          patch[e] = [op |-> "add", path |-> <<KeyX>>, value |-> JInt(7)]

(***************************************************************************)
(* Array schemas with uniqueItems.                                         *)
(***************************************************************************)
ArraySchemas ==
    LET base == [type |-> [names |-> <<"array">>]]
        unique(sch) == {sch} \cup {[f \in DOMAIN sch \cup {"uniqueItems"} |->
                                      IF f = "uniqueItems" THEN u ELSE sch[f]] :
                                   u \in BOOLEAN}
    IN unique(base) \cup unique([type |-> [names |-> <<"array">>], minItems |-> 2])

ArrayInstances == {JArr(a) : a \in SeqsUpTo({JInt(1), JInt(2), JDouble(2)}, MaxItems)}

InitArray == Built(ArraySchemas)

ValidateArray == Validate(ArrayInstances)

SpecArray == InitArray /\ [][ValidateArray]_vars

ErrorsWithKeyword(kw) == {e \in 1..Len(errors) : errors[e].keyword = kw}

HasDuplicates(a) == \E i, j \in 1..Len(a) : i < j /\ JsonEq(a[i], a[j])

\* C6 (as claimed): with uniqueItems true an array gets exactly one
\* uniqueItems error when two of its elements are equal and none otherwise,
\* however many duplicates it holds.
C6_UniqueItemsSingleError ==
    (pc = "validated" /\ Has(schema, "uniqueItems") /\ schema.uniqueItems) =>
        Cardinality(ErrorsWithKeyword("uniqueItems"))
            = (IF HasDuplicates(instance.items) THEN 1 ELSE 0)


(***************************************************************************)
(* Schemas that hold only a type: a name or a list of distinct names.      *)
(***************************************************************************)
TypeNames == {"number", "integer", "string", "null"}

TypeSchemas ==
    {TypeOf(names) : names \in {q \in SeqsUpTo(TypeNames, MaxTypeNames) :
                                   /\ Len(q) >= 1
                                   /\ \A i, j \in 1..Len(q) : i # j => q[i] # q[j]}}

TypeInstances ==
    {JNull, JBool(TRUE), JInt(3), JUInt(3), JDouble(3), JDouble(4), JStr(<<81>>),
     JBytes(<<81>>)}

InitType == Built(TypeSchemas)

ValidateType == Validate(TypeInstances)

SpecType == InitType /\ [][ValidateType]_vars

Names(sch) == {sch.type.names[i] : i \in 1..Len(sch.type.names)}

\* C7 (as claimed): when the type holds "number", wherever in the list, an
\* int64, uint64 or double instance gets neither a type error nor
\* "Instance is not a number".
C7_NumberAcceptsAllNumericKinds ==
    (pc = "validated" /\ "number" \in Names(schema) /\ IsNumber(instance)) =>
        /\ ErrorsWithKeyword("type") = {}
        /\ ErrorsWithKeyword("number") = {}

\* C8 (as claimed): type "string" without content keywords reports no error
\* for a byte-string instance.
C8_ByteStringNoError ==
    (pc = "validated" /\ schema.type.names = <<"string">>
        /\ instance.type = "byte_string") => errors = <<>>

\* C8 (amended): such a byte string gets no type error; it reaches the
\* string validator, which reports exactly one error, "Expected string, but
\* is byte string".
C8_ByteStringReachesStringValidator ==
    (pc = "validated" /\ schema.type.names = <<"string">>
        /\ instance.type = "byte_string") =>
        /\ ErrorsWithKeyword("type") = {}
        /\ Len(errors) = 1
        /\ errors[1].msg = "Expected string, but is byte string"
        /\ errors[1].keyword = "contentMediaType"

C8_Witness ==
    /\ pc = "validated" /\ schema.type.names = <<"string">>
    /\ instance = JBytes(<<81>>)
    /\ Len(errors) = 1

(***************************************************************************)
(* Integer schemas with every subset of the four bound keywords.           *)
(***************************************************************************)
BoundKeywords == {"maximum", "minimum", "exclusiveMaximum", "exclusiveMinimum"}

NumberSchemas ==
    {[f \in ks \cup {"type"} |->
         IF f = "type" THEN [names |-> <<"integer">>] ELSE [type |-> "int64", v |-> b[f]]] :
     ks \in SUBSET BoundKeywords, b \in [BoundKeywords -> 0..MaxBound]}

NumberInstances == {JInt(v) : v \in -1..(MaxBound + 1)}

InitNumber == Built(NumberSchemas)

ValidateNumber == Validate(NumberInstances)

SpecNumber == InitNumber /\ [][ValidateNumber]_vars

\* C9 (as claimed): an integer instance v gets an error iff v > maximum, or
\* v < minimum, or v >= exclusiveMaximum, or v <= exclusiveMinimum, for
\* every subset of the four keywords.
C9_BoundsIndependent ==
    pc = "validated" =>
        LET v == instance.v
        IN (errors # <<>>) <=>
              \/ Has(schema, "maximum") /\ v > schema.maximum.v
              \/ Has(schema, "minimum") /\ v < schema.minimum.v
              \/ Has(schema, "exclusiveMaximum") /\ v >= schema.exclusiveMaximum.v
              \/ Has(schema, "exclusiveMinimum") /\ v <= schema.exclusiveMinimum.v

(***************************************************************************)
(* String schemas with length and content keywords.                        *)
(***************************************************************************)
OptionalField(schemas, f, values) ==
    schemas \cup {[g \in DOMAIN sch \cup {f} |-> IF g = f THEN x ELSE sch[g]] :
                     sch \in schemas, x \in values}

StringSchemas ==
    LET s0 == {[type |-> [names |-> <<"string">>]]}
        s1 == OptionalField(s0, "minLength", 0..MaxBound)
        s2 == OptionalField(s1, "maxLength", 0..MaxBound)
        s3 == OptionalField(s2, "contentEncoding", {"base64", "", "7bit"})
    IN OptionalField(s3, "contentMediaType", {"application/json", "application/Json"})

\* Strings of 'Q' and U+03B1, the string "8", and a byte string.
StringInstances ==
    {JStr(Utf8(cps)) : cps \in SeqsUpTo({81, 945}, MaxCodepoints)}
    \cup {JStr(<<56>>), JBytes(<<81>>)}

InitString == Built(StringSchemas)

ValidateString == Validate(StringInstances)

SpecString == InitString /\ [][ValidateString]_vars

\* The number of code points of a UTF-8 string: its non-continuation bytes.
CodepointsOf(s) == Cardinality({i \in 1..Len(s) : s[i] \div 64 # 2})

\* C10 (as claimed): whatever the other keywords, a string instance gets a
\* minLength error iff its code-point count is below minLength and a
\* maxLength error iff it is above maxLength.
C10_LengthOfInstance ==
    (pc = "validated" /\ instance.type = "string") =>
        LET n == CodepointsOf(instance.s)
        IN /\ (ErrorsWithKeyword("minLength") # {})
                  <=> (Has(schema, "minLength") /\ n < schema.minLength)
           /\ (ErrorsWithKeyword("maxLength") # {})
                  <=> (Has(schema, "maxLength") /\ n > schema.maxLength)

(***************************************************************************)
(* contentMediaType                                                        *)
(***************************************************************************)
StringNode == root.type_mapping_["string"]

\* C11 (as claimed): with contentMediaType "application/json", a string
\* instance gets a contentMediaType error iff its content does not parse as
\* JSON.
C11_JsonContentChecked ==
    (/\ pc = "validated"
     /\ instance.type = "string"
     /\ Has(schema, "contentMediaType")
     /\ schema.contentMediaType = "application/json") =>
        LET content == string_content(StringNode, RootLocation, instance).content
        IN (ErrorsWithKeyword("contentMediaType") # {}) <=> ~JsonParses(content)

(***************************************************************************)
(* Object schemas with properties, patternProperties and                   *)
(* additionalProperties.                                                   *)
(***************************************************************************)
AdditionalSchemas ==
    LET s0 == {[type |-> [names |-> <<"object">>]]}
        s1 == OptionalField(s0, "properties",
                  {<<[key |-> KeyX, schema |-> TypeOf(<<"string">>)]>>})
        s2 == OptionalField(s1, "patternProperties",
                  {<<[regex |-> [anchored |-> a, lit |-> KeyY], schema |-> [bool |-> b]]>> :
                      a \in BOOLEAN, b \in BOOLEAN})
    IN OptionalField(s2, "additionalProperties",
           {[bool |-> FALSE], [bool |-> TRUE], TypeOf(<<"integer">>)})

InitAdditional == Built(AdditionalSchemas)

ValidateAdditional == Validate(ObjectInstances)

SpecAdditional == InitAdditional /\ [][ValidateAdditional]_vars

\* Whether a declared property or a pattern of the schema matches the key.
Matched(key) ==
    \/ /\ Has(schema, "properties")
       /\ \E k \in 1..Len(schema.properties) : schema.properties[k].key = key
    \/ /\ Has(schema, "patternProperties")
       /\ \E k \in 1..Len(schema.patternProperties) :
             regex_search(key, schema.patternProperties[k].regex)

\* Whether the additionalProperties validator was called on the value at key.
AdditionalApplied(key) ==
    /\ ~IsNull(ObjectNode.additional_properties_)
    /\ \E k \in 1..Len(visited) :
          /\ visited[k].akl = ObjectNode.additional_properties_.akl
          /\ visited[k].loc = <<key>>

SummaryErrors(key) ==
    {e \in 1..Len(errors) :
        errors[e].keyword = "additionalProperties" /\ errors[e].args = key}

\* C12: the additionalProperties validator is applied to an instance
\* property iff no properties entry and no patternProperties regex matches
\* its key; when it is applied and fails, exactly one summary error naming
\* the key is reported and no sub-error is; a matched property gets no
\* additionalProperties error.
C12_AdditionalProperties ==
    pc = "validated" =>
        \A i \in 1..Len(instance.members) :
            LET key == instance.members[i].key
                sub == validate(ObjectNode.additional_properties_, PointerUri(<<key>>),
                                instance.members[i].value).errors
            IN /\ AdditionalApplied(key)
                     <=> (Has(schema, "additionalProperties") /\ ~Matched(key))
               /\ AdditionalApplied(key) =>
                     /\ Cardinality(SummaryErrors(key)) = (IF sub # <<>> THEN 1 ELSE 0)
                     /\ \A e \in 1..Len(errors) : errors[e].loc # <<key>>
               /\ Matched(key) => SummaryErrors(key) = {}

C12_Witness ==
    /\ pc = "validated"
    /\ Has(schema, "properties") /\ Has(schema, "patternProperties")
    /\ Has(schema, "additionalProperties")
    /\ Len(instance.members) = 3
    /\ Cardinality(SummaryErrors(KeyZ)) = 1
    /\ SummaryErrors(KeyX) = {} /\ SummaryErrors(KeyY) = {}
    /\ Len(errors) = 1

(***************************************************************************)
(* Schemas with if / then / else.                                          *)
(***************************************************************************)
BranchSchemas == {[bool |-> TRUE], [bool |-> FALSE], TypeOf(<<"integer">>)}

ConditionalSchemas ==
    LET s0 == {TypeOf(<<"integer", "string">>)}
        s1 == OptionalField(s0, "if", BranchSchemas)
        s2 == OptionalField(s1, "then", BranchSchemas)
    IN OptionalField(s2, "else", BranchSchemas)

ConditionalInstances == {JInt(1), JStr(<<81>>), JDouble(3)}

InitConditional == Built(ConditionalSchemas)

ValidateConditional == Validate(ConditionalInstances)

SpecConditional == InitConditional /\ [][ValidateConditional]_vars

\* What the `if` sub-schema reports when it alone validates the instance.
IfErrors == validate(build(schema["if"], <<t_if>>, RootUri), RootLocation, instance).errors

BranchErrors(name, key) ==
    validate(build(schema[name], <<key>>, RootUri), RootLocation, instance).errors

VisitedAt(akl) == \E k \in 1..Len(visited) : visited[k].akl = akl

ErrorsAt(akl) == {e \in 1..Len(errors) : errors[e].akl = akl}

\* C13: the errors of `if` never reach the outer reporter; `then` is
\* validated, with the outer reporter, iff it is present and `if` produced no
\* error; `else` iff it is present and `if` produced an error; never both.
C13_IfThenElse ==
    (pc = "validated" /\ Has(schema, "if")) =>
        /\ ErrorsAt(<<t_if>>) = {}
        /\ VisitedAt(<<t_then>>) <=> (Has(schema, "then") /\ IfErrors = <<>>)
        /\ VisitedAt(<<t_else>>) <=> (Has(schema, "else") /\ IfErrors # <<>>)
        /\ ~(VisitedAt(<<t_then>>) /\ VisitedAt(<<t_else>>))
        /\ VisitedAt(<<t_then>>) =>
              Cardinality(ErrorsAt(<<t_then>>)) = Len(BranchErrors("then", t_then))
        /\ VisitedAt(<<t_else>>) =>
              Cardinality(ErrorsAt(<<t_else>>)) = Len(BranchErrors("else", t_else))

C13_Witness ==
    /\ pc = "validated"
    /\ Has(schema, "if") /\ Has(schema, "then") /\ Has(schema, "else")
    /\ schema["if"] = TypeOf(<<"integer">>)
    /\ instance = JStr(<<81>>)
    /\ IfErrors # <<>>
    /\ VisitedAt(<<t_else>>) /\ ~VisitedAt(<<t_then>>)
    /\ Cardinality(ErrorsAt(<<t_else>>)) = 1
    /\ Len(errors) = 1

(***************************************************************************)
(* Two validate calls on one validator graph, interleaved.  In this        *)
(* specification instance, errors, patch, visited and pc are functions of  *)
(* the calling thread: each call has its own instance, reporter and patch; *)
(* visited[t] counts the outputs call t has delivered so far.  A step of a *)
(* call reads the shared graph and delivers the call's next output.        *)
(***************************************************************************)
Threads == {1, 2}

\* Mutant: a do_validate that writes to its node, leaving a node that
\* rejects every instance.
do_validate_writes_node(node) == [kind |-> "false", akl |-> node.akl]

\* The node after a do_validate call on it: do_validate is a const member
\* function and the validators have no mutable member.
node_after_do_validate(node) == node

ConcurrentSchemas ==
    {[type |-> [names |-> <<"object">>],
      properties |-> <<[key |-> KeyX, schema |-> sx], [key |-> KeyY, schema |-> sy]>>,
      required |-> r] :
        sx \in {[type |-> [names |-> <<"integer">>], default |-> JInt(7)]},
        sy \in {TypeOf(<<"string">>), [bool |-> FALSE]},
        r \in {<<KeyX>>, <<KeyX, KeyZ>>}}

ConcurrentInstances ==
    {JObj(<<>>), JObj(<<[key |-> KeyY, value |-> JInt(1)]>>),
     JObj(<<[key |-> KeyX, value |-> JStr(<<81>>)], [key |-> KeyY, value |-> JStr(<<81>>)]>>)}

InitConcurrent ==
    /\ schema \in ConcurrentSchemas
    /\ root = build(schema, <<>>, RootUri)
    /\ instance = [t \in Threads |-> JNull]
    /\ errors = [t \in Threads |-> <<>>]
    /\ patch = [t \in Threads |-> <<>>]
    /\ visited = [t \in Threads |-> 0]
    /\ pc = [t \in Threads |-> "idle"]
    /\ NoSource

\* Thread t calls validate on the root with its own reporter and patch.
Call(t) ==
    /\ pc[t] = "idle"
    /\ \E inst \in ConcurrentInstances : instance' = [instance EXCEPT ![t] = inst]
    /\ pc' = [pc EXCEPT ![t] = "running"]
    /\ UNCHANGED <<schema, root, errors, patch, visited>>
    /\ UNCHANGED sourceVars

\* The call of thread t delivers its next output, an error or a patch entry.
Step(t) ==
    /\ pc[t] = "running"
    /\ LET r == validate(root, RootLocation, instance[t])
           k == visited[t]
       IN /\ k < Len(r.errors) + Len(r.patch)
          /\ IF k < Len(r.errors)
             THEN /\ errors' = [errors EXCEPT ![t] = Append(@, r.errors[k + 1])]
                  /\ UNCHANGED patch
             ELSE /\ patch' = [patch EXCEPT ![t] = Append(@, r.patch[k + 1 - Len(r.errors)])]
                  /\ UNCHANGED errors
    /\ visited' = [visited EXCEPT ![t] = @ + 1]
    /\ root' = node_after_do_validate(root)
    /\ UNCHANGED <<schema, instance, pc>>
    /\ UNCHANGED sourceVars

\* The call of thread t returns once it has delivered all its outputs.
Return(t) ==
    /\ pc[t] = "running"
    /\ LET r == validate(root, RootLocation, instance[t])
       IN visited[t] >= Len(r.errors) + Len(r.patch)
    /\ pc' = [pc EXCEPT ![t] = "done"]
    /\ root' = node_after_do_validate(root)
    /\ UNCHANGED <<schema, instance, errors, patch, visited>>
    /\ UNCHANGED sourceVars

NextConcurrent == \E t \in Threads : Call(t) \/ Step(t) \/ Return(t)

SpecConcurrent == InitConcurrent /\ [][NextConcurrent]_vars

\* What the call of thread t produces when it runs alone on the built graph.
Alone(t) == validate(build(schema, <<>>, RootUri), RootLocation, instance[t])

MaxUnits == 3

Units == {65, 66}

TraitsEof == 0 - 1

Min(a, b) == IF a < b THEN a ELSE b

\* The validator is not involved.
NoValidator ==
    /\ schema = [bool |-> TRUE]
    /\ root = NullPtr
    /\ instance = JNull
    /\ errors = <<>>
    /\ patch = <<>>
    /\ visited = <<>>
    /\ pc = "source"

\* string_source<CharT>(data, size), CharT of sizeof width.
string_source(data, width) ==
    [kind |-> "string_source", width |-> width, data |-> data,
     input_ptr_ |-> 0, input_end_ |-> Len(data), eof_ |-> (Len(data) = 0)]

bytes_source(data) ==
    [kind |-> "bytes_source", width |-> 1, data |-> data,
     input_ptr_ |-> 0, input_end_ |-> Len(data), eof_ |-> (Len(data) = 0)]

buffer_eof(s) == s.eof_

\* string_source divides the distance in units by sizeof(value_type);
\* bytes_source does not.
buffer_position(s) ==
    IF s.kind = "string_source" THEN (s.input_ptr_ \div s.width) + 1
    ELSE s.input_ptr_ + 1

buffer_get_character(s) ==
    IF s.input_ptr_ < s.input_end_
    THEN [src |-> [s EXCEPT !.input_ptr_ = @ + 1], ret |-> <<s.data[s.input_ptr_ + 1]>>,
          dst |-> <<>>]
    ELSE [src |-> [s EXCEPT !.eof_ = TRUE, !.input_ptr_ = s.input_end_], ret |-> <<>>,
          dst |-> <<>>]

\* Mutant: ignore reports end of input also when exactly count units remain.
buffer_ignore_eof_at_end(s, count) ==
    LET short == s.input_end_ - s.input_ptr_ <= count
        len == IF short THEN s.input_end_ - s.input_ptr_ ELSE count
    IN [src |-> [s EXCEPT !.input_ptr_ = @ + len, !.eof_ = (@ \/ short)],
        ret |-> <<>>, dst |-> <<>>]

buffer_ignore(s, count) ==
    LET short == s.input_end_ - s.input_ptr_ < count
        len == IF short THEN s.input_end_ - s.input_ptr_ ELSE count
    IN [src |-> [s EXCEPT !.input_ptr_ = @ + len, !.eof_ = (@ \/ short)],
        ret |-> <<>>, dst |-> <<>>]

buffer_peek(s) ==
    [src |-> s,
     ret |-> IF s.input_ptr_ < s.input_end_ THEN <<s.data[s.input_ptr_ + 1]>>
             ELSE <<TraitsEof>>,
     dst |-> <<>>]

buffer_peek_character(s) ==
    [src |-> s,
     ret |-> IF s.input_ptr_ < s.input_end_ THEN <<s.data[s.input_ptr_ + 1]>> ELSE <<>>,
     dst |-> <<>>]

buffer_read(s, length) ==
    LET short == s.input_end_ - s.input_ptr_ < length
        len == IF short THEN s.input_end_ - s.input_ptr_ ELSE length
    IN [src |-> [s EXCEPT !.input_ptr_ = @ + len, !.eof_ = (@ \/ short)],
        ret |-> <<len>>,
        dst |-> SubSeq(s.data, s.input_ptr_ + 1, s.input_ptr_ + len)]

(***************************************************************************)
(* A buffer source under any sequence of operations.  history.consumed is  *)
(* the number of units truly consumed, history.short whether some          *)
(* operation asked for more units than remained, history.was_eof whether   *)
(* eof() was true before the last operation.                               *)
(***************************************************************************)
BufferSources ==
    {string_source(d, w) : d \in SeqsUpTo(Units, MaxUnits), w \in {1, 2, 4}}
    \cup {bytes_source(d) : d \in SeqsUpTo(Units, MaxUnits)}

InitBuffer ==
    /\ NoValidator
    /\ source \in BufferSources
    /\ result = [op |-> "construct", n |-> 0, remaining |-> 0, ret |-> <<>>, dst |-> <<>>]
    /\ history = [consumed |-> 0, short |-> FALSE, was_eof |-> FALSE]

\* The operation op, which asks for n units and returns r.
BufferOp(op, n, r) ==
    LET remaining == Len(source.data) - history.consumed
    IN /\ source' = r.src
       /\ result' = [op |-> op, n |-> n, remaining |-> remaining, ret |-> r.ret,
                     dst |-> r.dst]
       /\ history' = [consumed |-> history.consumed + Min(n, remaining),
                      short |-> (history.short \/ n > remaining),
                      was_eof |-> buffer_eof(source)]
       /\ UNCHANGED validatorVars

BufferGetCharacter == BufferOp("get_character", 1, buffer_get_character(source))

BufferIgnore == \E n \in 0..(MaxUnits + 1) : BufferOp("ignore", n, buffer_ignore(source, n))

BufferPeek == BufferOp("peek", 0, buffer_peek(source))

BufferPeekCharacter == BufferOp("peek_character", 0, buffer_peek_character(source))

BufferRead == \E n \in 0..(MaxUnits + 1) : BufferOp("read", n, buffer_read(source, n))

NextBuffer ==
    \/ BufferGetCharacter
    \/ BufferIgnore
    \/ BufferPeek
    \/ BufferPeekCharacter
    \/ BufferRead

SpecBuffer == InitBuffer /\ [][NextBuffer]_vars

\* C15: read returns min(n, remaining) and copies those units, ignore
\* advances by min(n, remaining), and eof() is true iff the source was
\* constructed empty or an earlier get_character, ignore or read asked for
\* more units than remained; once true it stays true.
C15_BufferReadIgnoreEof ==
    /\ result.op = "read" =>
          /\ result.ret = <<Min(result.n, result.remaining)>>
          /\ result.dst = SubSeq(source.data, history.consumed - result.ret[1] + 1,
                                 history.consumed)
    /\ source.input_ptr_ = history.consumed
    /\ buffer_eof(source) <=> (Len(source.data) = 0 \/ history.short)
    /\ history.was_eof => buffer_eof(source)

C15_Witness ==
    /\ source.kind = "bytes_source"
    /\ Len(source.data) = 3
    /\ result.op = "read" /\ result.n = 3 /\ result.remaining = 2
    /\ result.ret = <<2>>
    /\ buffer_eof(source)

\* C16 (as claimed): position() is 1 plus the number of units consumed, for
\* string_source of every code-unit width and for bytes_source.
C16_BufferPosition == buffer_position(source) = 1 + history.consumed

(***************************************************************************)
(* Stream sources.  The stream buffer holds the units data and has         *)
(* delivered the first gptr of them; a call on it may raise instead of     *)
(* delivering (raises), and then delivers nothing.  eofbit and badbit are  *)
(* the state bits of the stream.                                           *)
(***************************************************************************)
MaxPosition == 5

stream_source(data) ==
    [kind |-> "stream_source", data |-> data, gptr |-> 0,
     eofbit |-> FALSE, badbit |-> FALSE, position_ |-> 0]

binary_stream_source(data) ==
    [kind |-> "binary_stream_source", data |-> data, gptr |-> 0,
     eofbit |-> FALSE, badbit |-> FALSE, position_ |-> 0]

stream_eof(s) == s.eofbit

stream_is_error(s) == s.badbit

stream_position(s) == s.position_

stream_get_character(s, raises) ==
    IF raises THEN
        [src |-> [s EXCEPT !.badbit = TRUE, !.eofbit = TRUE], ret |-> <<>>, dst |-> <<>>]
    ELSE IF s.gptr >= Len(s.data) THEN
        [src |-> [s EXCEPT !.eofbit = TRUE], ret |-> <<>>, dst |-> <<>>]
    ELSE [src |-> [s EXCEPT !.gptr = @ + 1, !.position_ = @ + 1],
          ret |-> <<s.data[s.gptr + 1]>>, dst |-> <<>>]

\* The loop of ignore from its i-th round; the raise_at-th call on the
\* stream buffer raises (0: none does).
RECURSIVE stream_ignore_loop(_, _, _, _)
stream_ignore_loop(s, i, count, raise_at) ==
    IF i >= count THEN s
    ELSE IF i + 1 = raise_at THEN [s EXCEPT !.badbit = TRUE, !.eofbit = TRUE]
    ELSE IF s.gptr >= Len(s.data) THEN [s EXCEPT !.eofbit = TRUE]
    ELSE stream_ignore_loop([s EXCEPT !.gptr = @ + 1, !.position_ = @ + 1],
                            i + 1, count, raise_at)

stream_ignore(s, count, raise_at) ==
    [src |-> stream_ignore_loop(s, 0, count, raise_at), ret |-> <<>>, dst |-> <<>>]

stream_peek(s, raises) ==
    IF raises THEN [src |-> [s EXCEPT !.badbit = TRUE], ret |-> <<TraitsEof>>, dst |-> <<>>]
    ELSE IF s.gptr >= Len(s.data) THEN
        [src |-> [s EXCEPT !.eofbit = TRUE], ret |-> <<TraitsEof>>, dst |-> <<>>]
    ELSE [src |-> s, ret |-> <<s.data[s.gptr + 1]>>, dst |-> <<>>]

stream_peek_character(s, raises) ==
    IF raises THEN [src |-> [s EXCEPT !.badbit = TRUE], ret |-> <<>>, dst |-> <<>>]
    ELSE IF s.gptr >= Len(s.data) THEN
        [src |-> [s EXCEPT !.eofbit = TRUE], ret |-> <<>>, dst |-> <<>>]
    ELSE [src |-> s, ret |-> <<s.data[s.gptr + 1]>>, dst |-> <<>>]

stream_read(s, length, raises) ==
    LET count == Min(length, Len(s.data) - s.gptr)
    IN IF raises THEN
           [src |-> [s EXCEPT !.badbit = TRUE, !.eofbit = TRUE], ret |-> <<0>>, dst |-> <<>>]
       ELSE [src |-> [s EXCEPT !.gptr = @ + count,
                               !.eofbit = (@ \/ count < length),
                               !.position_ = @ + length],
             ret |-> <<count>>, dst |-> SubSeq(s.data, s.gptr + 1, s.gptr + count)]

(***************************************************************************)
(* A stream source under any sequence of operations.  history.consumed is  *)
(* the number of units the stream buffer has delivered, history.raised     *)
(* whether it has raised, history.position the position() before the last  *)
(* operation.                                                              *)
(***************************************************************************)
StreamSources ==
    {stream_source(d) : d \in SeqsUpTo(Units, MaxUnits)}
    \cup {binary_stream_source(d) : d \in SeqsUpTo(Units, MaxUnits)}

InitStream ==
    /\ NoValidator
    /\ source \in StreamSources
    /\ result = [op |-> "construct", n |-> 0, ret |-> <<>>, dst |-> <<>>]
    /\ history = [consumed |-> 0, raised |-> FALSE, position |-> 0]

StreamOp(op, n, raises, r) ==
    /\ r.src.position_ <= MaxPosition
    /\ source' = r.src
    /\ result' = [op |-> op, n |-> n, ret |-> r.ret, dst |-> r.dst]
    /\ history' = [consumed |-> r.src.gptr, raised |-> (history.raised \/ raises),
                   position |-> stream_position(source)]
    /\ UNCHANGED validatorVars

StreamGetCharacter ==
    \E raises \in BOOLEAN :
        StreamOp("get_character", 1, raises, stream_get_character(source, raises))

StreamIgnore ==
    \E n \in 0..(MaxUnits + 1) : \E raise_at \in 0..n :
        StreamOp("ignore", n,
                 raise_at # 0 /\ raise_at <= Len(source.data) - source.gptr + 1,
                 stream_ignore(source, n, raise_at))

StreamPeek ==
    \E raises \in BOOLEAN : StreamOp("peek", 0, raises, stream_peek(source, raises))

StreamPeekCharacter ==
    \E raises \in BOOLEAN :
        StreamOp("peek_character", 0, raises, stream_peek_character(source, raises))

StreamRead ==
    \E n \in 0..(MaxUnits + 1) : \E raises \in BOOLEAN :
        StreamOp("read", n, raises, stream_read(source, n, raises))

NextStream ==
    \/ StreamGetCharacter
    \/ StreamIgnore
    \/ StreamPeek
    \/ StreamPeekCharacter
    \/ StreamRead

SpecStream == InitStream /\ [][NextStream]_vars

\* C17 (as claimed): position() of a stream source is the number of units
\* actually consumed from the stream, and it never decreases.
C17_StreamPosition ==
    /\ stream_position(source) = history.consumed
    /\ history.position <= stream_position(source)

\* C18 (as claimed): once the stream buffer has raised during an operation,
\* is_error() and eof() are both true, and stay true.
C18_StreamErrorsSticky ==
    history.raised => (stream_is_error(source) /\ stream_eof(source))

(***************************************************************************)
(* source_reader<Source>::read over a buffer source.  The container v is a *)
(* sequence of units; resize appends value-initialised (zero) units.       *)
(***************************************************************************)
max_buffer_length == 16384

\* The loop of the overload for containers with data(): [src, v, unread].
RECURSIVE read_resize_loop(_, _, _, _)
read_resize_loop(s, v, unread, n) ==
    IF n > 0 /\ ~buffer_eof(s) THEN
        LET offset == Len(v)
            resized == v \o [i \in 1..n |-> 0]
            r == buffer_read(s, n)
            actual == r.ret[1]
            filled == [i \in 1..Len(resized) |->
                          IF i > offset /\ i <= offset + actual THEN r.dst[i - offset]
                          ELSE resized[i]]
        IN read_resize_loop(r.src, filled, unread - actual,
                            Min(max_buffer_length, unread - actual))
    ELSE [src |-> s, v |-> v, unread |-> unread]

source_reader_read_data(s, v, length) ==
    LET r == read_resize_loop(s, v, length, Min(max_buffer_length, length))
    IN [src |-> r.src, ret |-> <<length - r.unread>>, dst |-> r.v]

\* The inner loop of the overload for containers without data():
\* [src, v, actual].
RECURSIVE read_push_back_inner(_, _, _, _)
read_push_back_inner(s, v, actual, n) ==
    IF actual < n THEN
        LET c == buffer_get_character(s)
        IN IF c.ret = <<>> THEN [src |-> c.src, v |-> v, actual |-> actual]
           ELSE read_push_back_inner(c.src, Append(v, c.ret[1]), actual + 1, n)
    ELSE [src |-> s, v |-> v, actual |-> actual]

RECURSIVE read_push_back_loop(_, _, _, _)
read_push_back_loop(s, v, unread, n) ==
    IF n > 0 /\ ~buffer_eof(s) THEN
        LET r == read_push_back_inner(s, v, 0, n)
        IN read_push_back_loop(r.src, r.v, unread - r.actual,
                               Min(max_buffer_length, unread - r.actual))
    ELSE [src |-> s, v |-> v, unread |-> unread]

source_reader_read_push_back(s, v, length) ==
    LET r == read_push_back_loop(s, v, length, Min(max_buffer_length, length))
    IN [src |-> r.src, ret |-> <<length - r.unread>>, dst |-> r.v]

(***************************************************************************)
(* Bulk reads from a buffer source of 1-byte units into a container with   *)
(* prior contents.  history.prior is the container before the last read.   *)
(***************************************************************************)
PriorContents == {<<>>, <<67>>}

InitReader ==
    /\ NoValidator
    /\ source \in {s \in BufferSources : s.width = 1}
    /\ result = [op |-> "construct", n |-> 0, remaining |-> 0, ret |-> <<>>, dst |-> <<>>]
    /\ history = [consumed |-> 0, prior |-> <<>>]

ReaderOp(op, n, v, r) ==
    /\ source' = r.src
    /\ result' = [op |-> op, n |-> n, remaining |-> Len(source.data) - source.input_ptr_,
                  ret |-> r.ret, dst |-> r.dst]
    /\ history' = [consumed |-> source.input_ptr_, prior |-> v]
    /\ UNCHANGED validatorVars

ReadData ==
    \E n \in 0..(MaxUnits + 1) : \E v \in PriorContents :
        ReaderOp("read_data", n, v, source_reader_read_data(source, v, n))

ReadPushBack ==
    \E n \in 0..(MaxUnits + 1) : \E v \in PriorContents :
        ReaderOp("read_push_back", n, v, source_reader_read_push_back(source, v, n))

NextReader == ReadData \/ ReadPushBack

SpecReader == InitReader /\ [][NextReader]_vars

\* C19 (as claimed): read returns r = min(length, units remaining) and
\* leaves v equal to its prior contents followed by exactly the r units
\* read, on both overloads.
C19_BulkRead ==
    result.op \in {"read_data", "read_push_back"} =>
        LET r == Min(result.n, result.remaining)
        IN /\ result.ret = <<r>>
           /\ result.dst = history.prior
                           \o SubSeq(source.data, history.consumed + 1, history.consumed + r)

(***************************************************************************)
(* json_text_traits: decoding one code point at the cursor.  first is      *)
(* the sequence of code units from the cursor to the end; code units are   *)
(* taken as unsigned.  A decoder returns the conversion result, the code   *)
(* point written to *target (<<>> when none is written) and the number of  *)
(* units the cursor advances.                                              *)
(***************************************************************************)
uni_replacement_char == 65533
uni_max_legal_utf32 == 1114111
half_base == 65536
uni_sur_high_start == 55296
uni_sur_high_end == 56319
uni_sur_low_start == 56320
uni_sur_low_end == 57343

trailing_bytes_for_utf8(b) ==
    IF b < 192 THEN 0
    ELSE IF b < 224 THEN 1
    ELSE IF b < 240 THEN 2
    ELSE IF b < 248 THEN 3
    ELSE IF b < 252 THEN 4
    ELSE 5

\* offsets_from_utf8[extraBytesToRead].  Entries 4 and 5 (0xFA082080 and
\* 0x82082080) are never read: is_legal rejects a length above 4 first.
offsets_from_utf8(k) ==
    <<0, 12416, 925824, 63447168>>[k + 1]

\* The byte a the inner switch looks at is the second byte of the sequence.
is_legal(first, length) ==
    IF length < 1 \/ length > 4 THEN FALSE
    ELSE IF length >= 4 /\ (first[4] < 128 \/ first[4] > 191) THEN FALSE
    ELSE IF length >= 3 /\ (first[3] < 128 \/ first[3] > 191) THEN FALSE
    ELSE IF length >= 2 /\ (first[2] < 128 \/ first[2] > 191) THEN FALSE
    ELSE IF length >= 2 /\ first[1] = 224 /\ first[2] < 160 THEN FALSE
    ELSE IF length >= 2 /\ first[1] = 237 /\ first[2] > 159 THEN FALSE
    ELSE IF length >= 2 /\ first[1] = 240 /\ first[2] < 144 THEN FALSE
    ELSE IF length >= 2 /\ first[1] = 244 /\ first[2] > 143 THEN FALSE
    ELSE IF first[1] >= 128 /\ first[1] < 194 THEN FALSE
    ELSE first[1] <= 244

\* The fall-through switch: ch accumulates the bytes, shifted by 6 between.
\* With at most 4 bytes the 32-bit ch does not wrap.
RECURSIVE utf8_accumulate(_, _, _)
utf8_accumulate(first, i, n) ==
    IF i = n THEN first[i]
    ELSE utf8_accumulate(first, i, n - 1) * 64 + first[n]

\* json_text_traits<8-bit>::next_codepoint
utf8_next_codepoint(first, flags) ==
    LET extraBytesToRead == trailing_bytes_for_utf8(first[1])
    IN IF extraBytesToRead >= Len(first) THEN
           [ret |-> "source_exhausted", target |-> <<>>, advance |-> 0]
       ELSE IF ~is_legal(first, extraBytesToRead + 1) THEN
           [ret |-> "source_illegal", target |-> <<>>, advance |-> 0]
       ELSE
           LET ch == utf8_accumulate(first, 1, extraBytesToRead + 1)
                      - offsets_from_utf8(extraBytesToRead)
           IN IF ch <= uni_max_legal_utf32 THEN
                  IF ch >= uni_sur_high_start /\ ch <= uni_sur_low_end THEN
                      IF flags = "strict"
                      THEN [ret |-> "source_illegal", target |-> <<>>, advance |-> 0]
                      ELSE [ret |-> "ok", target |-> <<uni_replacement_char>>,
                            advance |-> extraBytesToRead + 1]
                  ELSE [ret |-> "ok", target |-> <<ch>>, advance |-> extraBytesToRead + 1]
              ELSE [ret |-> "source_illegal", target |-> <<uni_replacement_char>>,
                    advance |-> extraBytesToRead + 1]

\* json_text_traits<16-bit>::next_codepoint
utf16_next_codepoint(first, flags) ==
    LET ch == first[1]
    IN IF ch >= uni_sur_high_start /\ ch <= uni_sur_high_end THEN
           IF Len(first) > 1 THEN
               LET ch2 == first[2]
               IN IF ch2 >= uni_sur_low_start /\ ch2 <= uni_sur_low_end THEN
                      [ret |-> "ok",
                       target |-> <<(ch - uni_sur_high_start) * 1024
                                    + (ch2 - uni_sur_low_start) + half_base>>,
                       advance |-> 2]
                  ELSE IF flags = "strict" THEN
                      [ret |-> "source_illegal", target |-> <<>>, advance |-> 0]
                  ELSE [ret |-> "ok", target |-> <<ch>>, advance |-> 1]
           ELSE [ret |-> "source_exhausted", target |-> <<ch>>, advance |-> 0]
       ELSE IF flags = "strict" /\ ch >= uni_sur_low_start /\ ch <= uni_sur_low_end THEN
           [ret |-> "source_illegal", target |-> <<ch>>, advance |-> 0]
       ELSE [ret |-> "ok", target |-> <<ch>>, advance |-> 1]

\* json_text_traits<32-bit>::next_codepoint
utf32_next_codepoint(first, flags) ==
    [ret |-> "ok", target |-> <<first[1]>>, advance |-> 1]

next_codepoint(encoding, first, flags) ==
    CASE encoding = "utf8" -> utf8_next_codepoint(first, flags)
      [] encoding = "utf16" -> utf16_next_codepoint(first, flags)
      [] encoding = "utf32" -> utf32_next_codepoint(first, flags)

(***************************************************************************)
(* One next_codepoint call on a non-empty input of an encoding.            *)
(***************************************************************************)
MaxSequence == 4

Utf8Bytes == {65, 128, 144, 160, 192, 194, 224, 237, 244}

Utf16Units == {65, uni_sur_high_start, uni_sur_low_start}

Utf32Units == {65, uni_sur_high_start, uni_max_legal_utf32 + 1}

CodecInputs ==
    {[kind |-> "utf8", data |-> d, flags |-> f] :
        d \in SeqsUpTo(Utf8Bytes, MaxSequence) \ {<<>>}, f \in {"strict", "lenient"}}
    \cup {[kind |-> "utf16", data |-> d, flags |-> f] :
             d \in SeqsUpTo(Utf16Units, 2) \ {<<>>}, f \in {"strict", "lenient"}}
    \cup {[kind |-> "utf32", data |-> d, flags |-> f] :
             d \in SeqsUpTo(Utf32Units, 1) \ {<<>>}, f \in {"strict", "lenient"}}

InitCodec ==
    /\ NoValidator
    /\ source \in CodecInputs
    /\ result = [op |-> "none", ret |-> "ok", target |-> <<>>, advance |-> 0]
    /\ history = [consumed |-> 0]

NextCodepoint ==
    /\ result.op = "none"
    /\ LET r == next_codepoint(source.kind, source.data, source.flags)
       IN result' = [op |-> "next_codepoint", ret |-> r.ret, target |-> r.target,
                     advance |-> r.advance]
    /\ UNCHANGED <<source, history>>
    /\ UNCHANGED validatorVars

SpecCodec == InitCodec /\ [][NextCodepoint]_vars

\* The length of the UTF-8 sequence a lead byte announces (0: not a lead).
Utf8Announced(b) ==
    IF b >= 192 /\ b < 224 THEN 2
    ELSE IF b >= 224 /\ b < 240 THEN 3
    ELSE IF b >= 240 /\ b < 248 THEN 4
    ELSE 0

\* The value the first n bytes encode, from their payload bits.
RECURSIVE Utf8Payload(_, _)
Utf8Payload(d, n) ==
    IF n = 1 THEN d[1] % (IF d[1] < 224 THEN 32 ELSE IF d[1] < 240 THEN 16 ELSE 8)
    ELSE Utf8Payload(d, n - 1) * 64 + (d[n] % 64)

\* A complete UTF-8 sequence at the cursor that is overlong, encodes a
\* surrogate, or encodes a value above U+10FFFF.
IllegalUtf8(d) ==
    LET n == Utf8Announced(d[1])
    IN /\ n # 0 /\ Len(d) >= n
       /\ \A i \in 2..n : d[i] >= 128 /\ d[i] < 192
       /\ LET v == Utf8Payload(d, n)
          IN \/ v < (CASE n = 2 -> 128 [] n = 3 -> 2048 [] n = 4 -> 65536)
             \/ (v >= uni_sur_high_start /\ v <= uni_sur_low_end)
             \/ v > uni_max_legal_utf32

\* An unpaired UTF-16 surrogate at the cursor: a low surrogate, or a high
\* surrogate followed by a unit that is not a low surrogate.
UnpairedUtf16(d) ==
    \/ d[1] >= uni_sur_low_start /\ d[1] <= uni_sur_low_end
    \/ /\ d[1] >= uni_sur_high_start /\ d[1] <= uni_sur_high_end
       /\ Len(d) > 1
       /\ ~(d[2] >= uni_sur_low_start /\ d[2] <= uni_sur_low_end)

\* C20 (as claimed): on a complete but illegal sequence at the cursor,
\* lenient next_codepoint returns ok and yields U+FFFD, and strict
\* next_codepoint returns source_illegal.
C20_LenientDecoding ==
    (/\ result.op = "next_codepoint"
     /\ \/ source.kind = "utf8" /\ IllegalUtf8(source.data)
        \/ source.kind = "utf16" /\ UnpairedUtf16(source.data)) =>
        IF source.flags = "lenient"
        THEN result.ret = "ok" /\ result.target = <<uni_replacement_char>>
        ELSE result.ret = "source_illegal"


(***************************************************************************)
(* One append_codepoint_to_string call on a string and a 32-bit value.     *)
(***************************************************************************)
Around == 4

\* Values around the boundaries of the branches and of the surrogate range.
CodepointSamples ==
    UNION {{cp \in (b - Around)..(b + Around) : cp >= 0} :
              b \in {0, 127, 2047, uni_sur_high_start, uni_sur_low_end, 65535,
                     uni_max_legal_utf32}}

InitAppend ==
    /\ NoValidator
    /\ source \in {[cp |-> cp, s |-> s] : cp \in CodepointSamples, s \in {<<>>, <<65>>}}
    /\ result = [op |-> "none", ret |-> <<>>]
    /\ history = [consumed |-> 0]

AppendCodepoint ==
    /\ result.op = "none"
    /\ result' = [op |-> "append_codepoint",
                  ret |-> append_codepoint_to_string(source.cp, source.s)]
    /\ UNCHANGED <<source, history>>
    /\ UNCHANGED validatorVars

SpecAppend == InitAppend /\ [][AppendCodepoint]_vars

\* The bytes the call added to the string.
Appended == SubSeq(result.ret, Len(source.s) + 1, Len(result.ret))

\* The length of the shortest UTF-8 form that can hold cp.
ShortestLength(cp) ==
    IF cp < 128 THEN 1 ELSE IF cp < 2048 THEN 2 ELSE IF cp < 65536 THEN 3 ELSE 4

\* C21 (as claimed): append_codepoint_to_string keeps the string it is given
\* and either appends nothing or appends the shortest UTF-8 encoding of cp,
\* and what it appends is accepted by is_legal.
C21_AppendMinimalLegal ==
    result.op = "append_codepoint" =>
        /\ SubSeq(result.ret, 1, Len(source.s)) = source.s
        /\ \/ Appended = <<>>
           \/ /\ Len(Appended) = ShortestLength(source.cp)
              /\ IF Len(Appended) = 1 THEN Appended[1] = source.cp
                 ELSE /\ Utf8Announced(Appended[1]) = Len(Appended)
                      /\ Utf8Payload(Appended, Len(Appended)) = source.cp
              /\ is_legal(Appended, Len(Appended))


(***************************************************************************)
(* uri_wrapper at the level of characters.  A wrapper holds uri_, of which *)
(* only the part before '#' (base) and the fragment matter here, and       *)
(* identifier_.  jsoncons::uri splits the string at '#' and keeps the      *)
(* fragment as written; jsoncons::jsonpointer::json_pointer holds a list   *)
(* of tokens, parsed from and printed to the '/'-separated form with '~'   *)
(* written ~0 and '/' written ~1.                                          *)
(***************************************************************************)
MaxFragment == 4

\* std::string::find: the first index of c in s, 0 when there is none.
Find(s, c) ==
    IF \E i \in 1..Len(s) : s[i] = c
    THEN CHOOSE i \in 1..Len(s) : s[i] = c /\ \A j \in 1..(i - 1) : s[j] # c
    ELSE 0

\* The value of a hexadecimal digit, -1 for any other character.
HexValue(c) ==
    IF c >= 48 /\ c <= 57 THEN c - 48
    ELSE IF c >= 65 /\ c <= 70 THEN c - 55
    ELSE IF c >= 97 /\ c <= 102 THEN c - 87
    ELSE 0 - 1

\* (char) std::strtoul(hex, nullptr, 16) for at most two characters, none of
\* them white space, a sign or a 0x prefix.
strtoul16(hex) ==
    IF hex = <<>> \/ HexValue(hex[1]) < 0 THEN 0
    ELSE IF Len(hex) = 1 \/ HexValue(hex[2]) < 0 THEN HexValue(hex[1])
    ELSE HexValue(hex[1]) * 16 + HexValue(hex[2])

\* The loop of unescape_percent, pos counted from 1.
RECURSIVE unescape_percent_loop(_, _)
unescape_percent_loop(s, pos) ==
    IF pos < 1 THEN s
    ELSE IF s[pos] = 37 THEN
        unescape_percent_loop(
            SubSeq(s, 1, pos - 1)
                \o <<strtoul16(SubSeq(s, pos + 1, Min(pos + 2, Len(s))))>>
                \o SubSeq(s, pos + 3, Len(s)),
            pos - 1)
    ELSE unescape_percent_loop(s, pos - 1)

unescape_percent(s) ==
    IF Len(s) >= 3 THEN unescape_percent_loop(s, Len(s) - 2) ELSE s

\* uri_wrapper::uri_wrapper(const std::string&)
uri_wrapper(uri) ==
    LET pos == Find(uri, 35)
    IN [base |-> IF pos = 0 THEN uri ELSE SubSeq(uri, 1, pos - 1),
        fragment |-> IF pos = 0 THEN <<>> ELSE SubSeq(uri, pos + 1, Len(uri)),
        identifier_ |-> IF pos = 0 THEN <<>>
                        ELSE unescape_percent(SubSeq(uri, pos + 1, Len(uri))),
        threw |-> FALSE]

wrapper_has_json_pointer(w) == w.identifier_ # <<>> /\ w.identifier_[1] = 47

wrapper_has_identifier(w) == w.identifier_ # <<>> /\ w.identifier_[1] # 47

\* A token as json_pointer prints it.
RECURSIVE escape_token(_)
escape_token(t) ==
    IF t = <<>> THEN <<>>
    ELSE (IF t[1] = 126 THEN <<126, 48>> ELSE IF t[1] = 47 THEN <<126, 49>> ELSE <<t[1]>>)
         \o escape_token(Tail(t))

\* A printed token as json_pointer reads it.
RECURSIVE unescape_token(_)
unescape_token(t) ==
    IF t = <<>> THEN <<>>
    ELSE IF Len(t) >= 2 /\ t[1] = 126 /\ t[2] = 48 THEN <<126>> \o unescape_token(SubSeq(t, 3, Len(t)))
    ELSE IF Len(t) >= 2 /\ t[1] = 126 /\ t[2] = 49 THEN <<47>> \o unescape_token(SubSeq(t, 3, Len(t)))
    ELSE <<t[1]>> \o unescape_token(Tail(t))

\* json_pointer(s) for s empty or starting with '/': the list of tokens.
RECURSIVE pointer_parse(_)
pointer_parse(s) ==
    IF s = <<>> THEN <<>>
    ELSE LET rest == Tail(s)
             next == Find(rest, 47)
         IN IF next = 0 THEN <<unescape_token(rest)>>
            ELSE <<unescape_token(SubSeq(rest, 1, next - 1))>>
                 \o pointer_parse(SubSeq(rest, next, Len(rest)))

\* json_pointer::string()
RECURSIVE pointer_string(_)
pointer_string(tokens) ==
    IF tokens = <<>> THEN <<>>
    ELSE <<47>> \o escape_token(Head(tokens)) \o pointer_string(Tail(tokens))

\* uri_wrapper::append, for a field or for the decimal form of an index.
\* Building the json_pointer from a fragment that is neither empty nor
\* starts with '/' raises.
wrapper_append(w, field) ==
    IF wrapper_has_identifier(w) THEN w
    ELSE IF w.fragment # <<>> /\ w.fragment[1] # 47 THEN
        [base |-> w.base, fragment |-> w.fragment, identifier_ |-> w.identifier_,
         threw |-> TRUE]
    ELSE LET pointer == Append(pointer_parse(w.fragment), field)
         IN [base |-> w.base, fragment |-> pointer_string(pointer),
             identifier_ |-> pointer_string(pointer), threw |-> FALSE]

wrapper_append_index(w, index) == wrapper_append(w, to_string(index))

(***************************************************************************)
(* A wrapper built from a string, then append calls on what the previous   *)
(* call returned.                                                          *)
(***************************************************************************)
FragmentChars == {47, 120, 37, 50, 53, 70}

UriStrings ==
    {<<>>} \cup {<<35>> \o f : f \in SeqsUpTo(FragmentChars, MaxFragment)}

InitUri ==
    /\ NoValidator
    /\ source \in {uri_wrapper(u) : u \in UriStrings}
    /\ result = [op |-> "none", step |-> <<>>]
    /\ history = [consumed |-> 0, prev |-> uri_wrapper(<<>>)]

UriOp(op, step, w) ==
    /\ history.consumed < 2
    /\ ~source.threw
    /\ source' = w
    /\ result' = [op |-> op, step |-> step]
    /\ history' = [consumed |-> history.consumed + 1, prev |-> source]
    /\ UNCHANGED validatorVars

AppendField == \E field \in {<<120>>, <<47>>} :
    UriOp("append", field, wrapper_append(source, field))

AppendIndex == \E index \in {0, 10} :
    UriOp("append", to_string(index), wrapper_append_index(source, index))

NextUri == AppendField \/ AppendIndex

SpecUri == InitUri /\ [][NextUri]_vars

\* C22 (as claimed): append on a wrapper whose fragment is a plain name
\* returns the receiver unchanged; on any other wrapper it returns a wrapper
\* whose identifier is the receiver's pointer fragment extended by the one
\* token, and has_identifier() is false for it.
C22_UriAppend ==
    result.op = "append" =>
        IF wrapper_has_identifier(history.prev)
        THEN source = history.prev
        ELSE /\ ~source.threw
             /\ source.identifier_
                    = history.prev.identifier_ \o <<47>> \o escape_token(result.step)
             /\ ~wrapper_has_identifier(source)


\* C23 (as claimed): when the instance passes more than one child of oneOf,
\* every child is validated and the number in the reported message is the
\* number of children the instance passes.
C23_OneOfMatchCount ==
    (pc = "validated" /\ Has(schema, "oneOf") /\ Cardinality(Passing) > 1) =>
        /\ \A i \in 1..Len(Children) : ChildVisited(i)
        /\ Len(errors) = 1
        /\ errors[1].keyword = "oneOf"
        /\ errors[1].args = <<Cardinality(Passing)>>


(***************************************************************************)
(* Integer schemas with a bound, enum, const, the combined keywords (with  *)
(* non-empty child lists) and if / then / else.                            *)
(***************************************************************************)
SiblingSchemas ==
    LET s0 == {TypeOf(<<"integer">>)}
        s1 == OptionalField(s0, "maximum", {JInt(2)})
        s2 == OptionalField(s1, "enum", {<<JInt(1)>>})
        s3 == OptionalField(s2, "const", {JInt(3)})
        s4 == OptionalField(s3, "not", {[bool |-> TRUE]})
        s5 == OptionalField(s4, "allOf", {<<[bool |-> FALSE]>>})
        s6 == OptionalField(s5, "anyOf", {<<[bool |-> FALSE]>>})
        s7 == OptionalField(s6, "oneOf", {<<[bool |-> FALSE]>>, <<[bool |-> TRUE], [bool |-> TRUE]>>})
        s8 == OptionalField(s7, "if", {[bool |-> TRUE], [bool |-> FALSE]})
        s9 == OptionalField(s8, "then", {[bool |-> FALSE]})
    IN OptionalField(s9, "else", {[bool |-> FALSE]})

SiblingInstances == {JInt(1), JInt(3), JStr(<<81>>)}

InitSibling == Built(SiblingSchemas)

ValidateSibling == Validate(SiblingInstances)

SpecSibling == InitSibling /\ [][ValidateSibling]_vars

\* The step of the type node an error of the outer reporter comes from:
\* 1 kind-specific or type, 2 enum, 3 const, 4 not, 5 allOf, 6 anyOf,
\* 7 oneOf, 8 conditional.
StepOf(e) ==
    IF e.akl # <<>> /\ e.akl[1] \in {t_then, t_else} THEN 8
    ELSE CASE e.keyword = "enum" -> 2
           [] e.keyword = "const" -> 3
           [] e.keyword = "not" -> 4
           [] e.keyword = "allOf" -> 5
           [] e.keyword = "oneOf" -> 7
           [] e.keyword = "combined" -> IF e.nested[1].akl[1] = t_anyOf THEN 6 ELSE 7
           [] OTHER -> 1

\* The steps the schema of the root has, apart from the first.
StepsPresent ==
    {k \in 2..8 : Has(schema, <<"", "enum", "const", "not", "allOf", "anyOf", "oneOf", "if">>[k])}

\* Whether the validator of a step was called during the call.
StepVisited(k) ==
    CASE k = 2 -> \E v \in 1..Len(visited) : visited[v].kind = "enum"
      [] k = 3 -> \E v \in 1..Len(visited) : visited[v].kind = "const"
      [] k = 4 -> VisitedAt(<<t_not>>)
      [] k = 5 -> VisitedAt(<<t_allOf, <<48>>>>)
      [] k = 6 -> VisitedAt(<<t_anyOf, <<48>>>>)
      [] k = 7 -> VisitedAt(<<t_oneOf, <<48>>>>)
      [] k = 8 -> \E v \in 1..Len(visited) : visited[v].kind = "conditional"

\* C24: a type node without a sub-validator for the kind of the instance
\* reports exactly one type error and still evaluates enum, const, every
\* combined sibling and the conditional; for every instance the errors
\* reach the reporter in the order kind-specific-or-type, enum, const, not,
\* allOf, anyOf, oneOf, conditional.
C24_TypeNodeOrder ==
    pc = "validated" =>
        /\ \A i, j \in 1..Len(errors) : i < j => StepOf(errors[i]) <= StepOf(errors[j])
        /\ \A k \in StepsPresent : StepVisited(k)
        /\ IsNull(root.type_mapping_[instance.type]) =>
              /\ Cardinality({e \in 1..Len(errors) : StepOf(errors[e]) = 1}) = 1
              /\ errors[1].keyword = "type"

C24_Witness ==
    /\ pc = "validated"
    /\ instance = JStr(<<81>>)
    /\ StepsPresent = 2..8
    /\ Has(schema, "else")
    /\ schema["if"] = [bool |-> FALSE]
    /\ Len(schema.oneOf) = 2
    /\ [e \in 1..Len(errors) |-> StepOf(errors[e])] = <<1, 2, 3, 4, 5, 6, 7, 8>>


(***************************************************************************)
(* An object schema with a defaulted property x, placed under `not`, `if`, *)
(* allOf / anyOf / oneOf, `contains` and `additionalProperties`.           *)
(***************************************************************************)
DefaultingSchemas ==
    LET props == <<[key |-> KeyX, schema |-> [type |-> [names |-> <<"integer">>],
                                               default |-> JInt(7)]]>>
    IN {[type |-> [names |-> <<"object">>], properties |-> props],
        [type |-> [names |-> <<"object">>], properties |-> props, required |-> <<KeyY>>]}

PatchSchemas ==
    LET lists == SeqsUpTo(DefaultingSchemas, 2) \ {<<>>}
    IN {[not |-> d] : d \in DefaultingSchemas}
       \cup {[f \in {"if", "then"} |-> IF f = "if" THEN d ELSE [bool |-> b]] :
                d \in DefaultingSchemas, b \in BOOLEAN}
       \cup {[allOf |-> c] : c \in lists} \cup {[anyOf |-> c] : c \in lists}
       \cup {[oneOf |-> c] : c \in lists}
       \cup {[type |-> [names |-> <<"array">>], contains |-> d] : d \in DefaultingSchemas}
       \cup {[type |-> [names |-> <<"object">>], additionalProperties |-> d] :
                d \in DefaultingSchemas}

\* Objects with and without x and y, and arrays and objects holding them.
PatchInstances ==
    LET objs == {JObj(<<>>), JObj(<<[key |-> KeyX, value |-> JInt(1)]>>),
                 JObj(<<[key |-> KeyY, value |-> JInt(1)]>>)}
    IN objs
       \cup {JArr(a) : a \in SeqsUpTo(objs, 2)}
       \cup {JObj(<<[key |-> KeyZ, value |-> o]>>) : o \in objs}
       \cup {JObj(<<[key |-> KeyY, value |-> o], [key |-> KeyZ, value |-> p]>>) :
                o \in objs, p \in objs}

InitPatch == Built(PatchSchemas)

ValidatePatch == Validate(PatchInstances)

SpecPatch == InitPatch /\ [][ValidatePatch]_vars

\* What the call recorded at position k of the history appends to the patch
\* itself: the defaulting schemas sit below the root, and add x when the
\* object they validate lacks it.
OwnPatch(k) ==
    IF /\ visited[k].kind = "object" /\ visited[k].akl # <<>>
       /\ ~ObjHas(visited[k].inst, KeyX)
    THEN <<[op |-> "add", path |-> Append(visited[k].loc, KeyX), value |-> JInt(7)]>>
    ELSE <<>>

RECURSIVE PatchOfCalls(_)
PatchOfCalls(k) == IF k = 0 THEN <<>> ELSE PatchOfCalls(k - 1) \o OwnPatch(k)

\* C25: the final patch holds every entry appended by a sub-validator during
\* the call, in the order appended, whether or not the errors of that
\* sub-validator were discarded or it failed.
C25_PatchAppendOnly ==
    pc = "validated" => patch = PatchOfCalls(Len(visited))

C25_Witness ==
    /\ pc = "validated"
    /\ Has(schema, "not") /\ Has(schema.not, "required")
    /\ instance = JObj(<<>>)
    /\ errors = <<>>
    /\ patch = <<[op |-> "add", path |-> <<KeyX>>, value |-> JInt(7)]>>


(***************************************************************************)
(* Array schemas with the list form and the single-schema form of items,   *)
(* with and without additionalItems.                                       *)
(***************************************************************************)
ItemSchemas == {[bool |-> TRUE], [bool |-> FALSE], TypeOf(<<"integer">>)}

ItemsSchemas ==
    LET s0 == {[type |-> [names |-> <<"array">>], items |-> [form |-> "array", list |-> l]] :
                  l \in SeqsUpTo(ItemSchemas, 2)}
              \cup {[type |-> [names |-> <<"array">>],
                     items |-> [form |-> "schema", schema |-> s]] : s \in ItemSchemas}
    IN OptionalField(s0, "additionalItems", {[bool |-> FALSE], TypeOf(<<"string">>)})

ItemsInstances == {JArr(a) : a \in SeqsUpTo({JInt(1), JStr(<<81>>)}, MaxItems)}

InitItems == Built(ItemsSchemas)

ValidateItems == Validate(ItemsInstances)

SpecItems == InitItems /\ [][ValidateItems]_vars

ListForm == schema.items.form = "array"

\* The calls the items step made, in order: which sub-schema and which
\* element.  build returns a type, true or false node.
IsItemCall(v) ==
    /\ v.kind \in {"type", "true", "false"}
    /\ v.akl # <<>> /\ v.akl[1] \in {t_items, t_additionalItems}

ItemCalls ==
    LET calls == SelectSeq(visited, IsItemCall)
    IN [k \in 1..Len(calls) |-> [akl |-> calls[k].akl, inst |-> calls[k].inst]]

\* C26: with the list form, element i is validated with items[i] for
\* i < |items| and with additionalItems, when present, for i >= |items|;
\* without additionalItems the elements from |items| on are not validated
\* by the items step.
C26_ListFormItems ==
    (pc = "validated" /\ ListForm) =>
        LET n == Len(schema.items.list)
            validated == IF Has(schema, "additionalItems") THEN Len(instance.items)
                         ELSE Min(n, Len(instance.items))
        IN ItemCalls =
              [i \in 1..validated |->
                  [akl |-> IF i <= n THEN <<t_items, to_string(i - 1)>>
                           ELSE <<t_additionalItems>>,
                   inst |-> instance.items[i]]]

C26_Witness ==
    /\ pc = "validated" /\ ListForm
    /\ Len(schema.items.list) = 2
    /\ Has(schema, "additionalItems")
    /\ Len(instance.items) = 3
    /\ Len(ItemCalls) = 3
    /\ ItemCalls[3].akl = <<t_additionalItems>>


\* The errors of the outer reporter that come from the items step.
IsItemError(e) == e.akl # <<>> /\ e.akl[1] \in {t_items, t_additionalItems}

\* What the sub-schema in charge of element k (counted from 1) reports when
\* it validates that element at the location of the array extended by k - 1.
ElementErrors(k) ==
    LET n == Len(schema.items.list)
        node == IF k <= n THEN build(schema.items.list[k], <<t_items, to_string(k - 1)>>, RootUri)
                ELSE build(schema.additionalItems, <<t_additionalItems>>, RootUri)
    IN validate(node, append_index(RootLocation, k - 1), instance.items[k]).errors

RECURSIVE ElementErrorsUpTo(_)
ElementErrorsUpTo(k) ==
    IF k = 0 THEN <<>> ELSE ElementErrorsUpTo(k - 1) \o ElementErrors(k)

\* C28 (as claimed): with the list form of items, the errors produced while
\* validating element i carry the location of the array extended by i.
C28_ListFormLocation ==
    (pc = "validated" /\ ListForm) =>
        SelectSeq(errors, IsItemError) = ElementErrorsUpTo(Len(ItemCalls))


(***************************************************************************)
(* codepoint_length on the code units from the cursor to the end.          *)
(***************************************************************************)
\* Mutant: every sequence is one unit long.
utf8_codepoint_length_one(first) == 1

\* json_text_traits<8-bit>::codepoint_length; u is the byte as unsigned.
utf8_codepoint_length(first) ==
    LET u == first[1]
    IN IF u < 128 THEN 1
       ELSE IF u \div 32 = 6 /\ Len(first) > 1 THEN 2
       ELSE IF u \div 16 = 14 /\ Len(first) > 2 THEN 3
       ELSE IF u \div 8 = 30 /\ Len(first) > 3 THEN 4
       ELSE 0

\* json_text_traits<16-bit>::codepoint_length
utf16_codepoint_length(first) ==
    LET cp == first[1] % 65536
    IN IF cp >= uni_sur_high_start /\ cp <= uni_sur_high_end /\ Len(first) > 1 THEN 2
       ELSE 1

codepoint_length(encoding, first) ==
    CASE encoding = "utf8" -> utf8_codepoint_length(first)
      [] encoding = "utf16" -> utf16_codepoint_length(first)

(***************************************************************************)
(* codepoint_length and strict next_codepoint on the same input, in either *)
(* order.  -1 stands for a call not made yet.                              *)
(***************************************************************************)
LengthInputs == {c \in CodecInputs : c.kind # "utf32" /\ c.flags = "strict"}

InitLength ==
    /\ NoValidator
    /\ source \in LengthInputs
    /\ result = [op |-> "none", ret |-> "none", length |-> 0 - 1, advance |-> 0 - 1]
    /\ history = [consumed |-> 0]

CodepointLength ==
    /\ result.length = 0 - 1
    /\ result' = [result EXCEPT !.op = "codepoint_length",
                                !.length = codepoint_length(source.kind, source.data)]
    /\ UNCHANGED <<source, history>>
    /\ UNCHANGED validatorVars

StrictNextCodepoint ==
    /\ result.advance = 0 - 1
    /\ LET r == next_codepoint(source.kind, source.data, "strict")
       IN result' = [result EXCEPT !.op = "next_codepoint", !.ret = r.ret,
                                   !.advance = r.advance]
    /\ UNCHANGED <<source, history>>
    /\ UNCHANGED validatorVars

NextLength == CodepointLength \/ StrictNextCodepoint

SpecLength == InitLength /\ [][NextLength]_vars

\* A legal sequence fully present at the cursor.
LegalAtCursor ==
    LET d == source.data
    IN IF source.kind = "utf8"
       THEN /\ trailing_bytes_for_utf8(d[1]) < Len(d)
            /\ is_legal(d, trailing_bytes_for_utf8(d[1]) + 1)
       ELSE \/ d[1] < uni_sur_high_start \/ d[1] > uni_sur_low_end
            \/ /\ d[1] >= uni_sur_high_start /\ d[1] <= uni_sur_high_end
               /\ Len(d) > 1
               /\ d[2] >= uni_sur_low_start /\ d[2] <= uni_sur_low_end

\* C27: on a legal sequence fully present in the buffer codepoint_length
\* returns the number of units strict next_codepoint advances by; for UTF-16
\* the length is 2 iff the lead is a high surrogate and a following unit is
\* available.
C27_LengthAgreesWithNext ==
    /\ (result.length # 0 - 1 /\ result.advance # 0 - 1 /\ LegalAtCursor) =>
           /\ result.ret = "ok"
           /\ result.length = result.advance
    /\ (result.length # 0 - 1 /\ source.kind = "utf16") =>
           /\ result.length \in {1, 2}
           /\ result.length = 2 <=>
                  /\ source.data[1] >= uni_sur_high_start
                  /\ source.data[1] <= uni_sur_high_end
                  /\ Len(source.data) > 1

C27_Witness ==
    /\ source.kind = "utf8"
    /\ source.data = <<244, 128, 128, 128>>
    /\ LegalAtCursor
    /\ result.length = 4 /\ result.advance = 4


(***************************************************************************)
(* codepoint_count over an 8-bit buffer: the loop, one iteration per step. *)
(* p is the offset of the cursor from it; count is a size_t, narrowed to   *)
(* CountWidth bits.                                                        *)
(***************************************************************************)
MaxBuffer == 3

CountWidth == 3

\* ASCII, a continuation byte, leads of two and three bytes, an invalid lead.
BufferBytes == {65, 128, 194, 226, 248}

InitCount ==
    /\ NoValidator
    /\ source \in {[data |-> d, p |-> 0, count |-> 0] : d \in SeqsUpTo(BufferBytes, MaxBuffer)}
    /\ result = [op |-> "running", ret |-> 0]
    /\ history = [consumed |-> 0]

\* One iteration of while (p < end).
CountStep ==
    /\ result.op = "running"
    /\ source.p < Len(source.data)
    /\ source' = [source EXCEPT
          !.p = @ + utf8_codepoint_length(SubSeq(source.data, source.p + 1, Len(source.data))),
          !.count = (@ + 1) % (2 ^ CountWidth)]
    /\ UNCHANGED <<result, history>>
    /\ UNCHANGED validatorVars

\* The loop condition fails: return count.
CountReturn ==
    /\ result.op = "running"
    /\ source.p >= Len(source.data)
    /\ result' = [op |-> "returned", ret |-> source.count]
    /\ UNCHANGED <<source, history>>
    /\ UNCHANGED validatorVars

NextCount == CountStep \/ CountReturn

SpecCount == InitCount /\ [][NextCount]_vars

\* The call keeps running while it has a step to take.
SpecCountFair == SpecCount /\ WF_vars(NextCount)

\* C29 (as claimed): codepoint_count returns after finitely many steps on
\* every 8-bit buffer.
C29_CountTerminates == <>(result.op = "returned")


(***************************************************************************)
(* iterator_source over pointers into the units; current_ is the offset of *)
(* the iterator from first.                                                *)
(***************************************************************************)
iterator_source(data) ==
    [data |-> data, current_ |-> 0, end_ |-> Len(data), position_ |-> 0,
     eof_ |-> (Len(data) = 0)]

iterator_eof(s) == s.current_ = s.end_

iterator_position(s) == s.position_

iterator_get_character(s) ==
    IF s.current_ < s.end_
    THEN [src |-> [s EXCEPT !.current_ = @ + 1], ret |-> <<s.data[s.current_ + 1]>>,
          dst |-> <<>>]
    ELSE [src |-> [s EXCEPT !.eof_ = TRUE, !.current_ = s.end_], ret |-> <<>>, dst |-> <<>>]

iterator_ignore(s, count) ==
    LET short == s.end_ - s.current_ < count
        len == IF short THEN s.end_ - s.current_ ELSE count
    IN [src |-> [s EXCEPT !.current_ = @ + len, !.eof_ = (@ \/ short)],
        ret |-> <<>>, dst |-> <<>>]

iterator_peek(s) ==
    [src |-> s,
     ret |-> IF s.current_ < s.end_ THEN <<s.data[s.current_ + 1]>> ELSE <<TraitsEof>>,
     dst |-> <<>>]

iterator_read(s, length) ==
    LET short == s.end_ - s.current_ < length
        len == IF short THEN s.end_ - s.current_ ELSE length
    IN [src |-> [s EXCEPT !.current_ = @ + len, !.eof_ = (@ \/ short)],
        ret |-> <<len>>,
        dst |-> SubSeq(s.data, s.current_ + 1, s.current_ + len)]

(***************************************************************************)
(* An iterator_source and a string_source of one-byte units over the same  *)
(* units, driven by the same calls.                                        *)
(***************************************************************************)
InitPair ==
    /\ NoValidator
    /\ source \in {[it |-> iterator_source(d), str |-> string_source(d, 1)] :
                      d \in SeqsUpTo(Units, MaxUnits)}
    /\ result = [op |-> "construct", it |-> [ret |-> <<>>, dst |-> <<>>],
                 str |-> [ret |-> <<>>, dst |-> <<>>]]
    /\ history = [consumed |-> 0]

\* The call op made on both sources, returning i and s.
PairOp(op, i, s) ==
    /\ source' = [it |-> i.src, str |-> s.src]
    /\ result' = [op |-> op, it |-> [ret |-> i.ret, dst |-> i.dst],
                  str |-> [ret |-> s.ret, dst |-> s.dst]]
    /\ UNCHANGED history
    /\ UNCHANGED validatorVars

PairGetCharacter ==
    PairOp("get_character", iterator_get_character(source.it),
           buffer_get_character(source.str))

PairIgnore == \E n \in 0..(MaxUnits + 1) :
    PairOp("ignore", iterator_ignore(source.it, n), buffer_ignore(source.str, n))

PairPeek == PairOp("peek", iterator_peek(source.it), buffer_peek(source.str))

PairRead == \E n \in 0..(MaxUnits + 1) :
    PairOp("read", iterator_read(source.it, n), buffer_read(source.str, n))

NextPair == PairGetCharacter \/ PairIgnore \/ PairPeek \/ PairRead

SpecPair == InitPair /\ [][NextPair]_vars

\* C30 (as claimed): after every call the two sources have returned the same
\* result and report the same eof() and the same position().
C30_SourcesInterchangeable ==
    result.op # "construct" =>
        /\ result.it = result.str
        /\ iterator_eof(source.it) = buffer_eof(source.str)
        /\ iterator_position(source.it) = buffer_position(source.str)

====
